---- MODULE Spec2Model ----
(***************************************************************************)
(* A model of the playback engines of foxglove studio.                     *)
(*                                                                         *)
(* RandomAccessPlayer (src/unnamed/part_004, lines 729-1294) is modelled   *)
(* as a state machine whose steps are the pieces of code the single owner  *)
(* thread runs without interruption: a public operation, a provider        *)
(* promise settling, a timer firing, the listener's promise resolving, and *)
(* each continuation of _read, _tick and _seekPlaybackInternal after an    *)
(* await.  A caller may make its calls from promise continuations of its   *)
(* own, so a public operation can come between any two of them; the order  *)
(* in which the pending continuations of the tick loop and of a backfill   *)
(* run is left open.  runExclusive releases the backfill mutex one step    *)
(* before _seekPlaybackInternal resumes, so that a second activation can   *)
(* begin between the two; the first one resumes before the second one's    *)
(* read is over.                                                           *)
(*                                                                         *)
(* Times are integers in nanoseconds ({sec, nsec} flattened).  A tick's    *)
(* read window is computed as the code computes it, from the time since    *)
(* the tick before (an input; of performance.now() only whether it reads   *)
(* 0, as it does at the time origin, is kept), the speed and the last      *)
(* range.  Progress (the provider's cache report) only feeds metrics and   *)
(* is not modelled beyond the callback's emission.                         *)
(*                                                                         *)
(* RosbridgePlayer (src/unnamed/part_004, lines 57-631) is modelled the    *)
(* same way, with its state in the record `ros`: the steps are its public  *)
(* operations, the events of the connection, the answers to its topic      *)
(* requests, its timers and the messages of its subscriptions.             *)
(*                                                                         *)
(* McapReader (src/unnamed/part_005) is modelled with the caller that      *)
(* feeds it in the record `mcap`: the steps are append and nextRecord, and *)
(* read() is a generator whose position is part of the reader's state.     *)
(*                                                                         *)
(* useMessageDataItem's reducer (components/MessagePathSyntax) is modelled *)
(* with the batches it is given in the record `item`.                      *)
(*                                                                         *)
(* A behaviour is about one of the four objects, named by `subject`.       *)
(***************************************************************************)
EXTENDS Integers, Sequences, FiniteSets, TLC

\* ------------------------------------------------------------- constants

\* One millisecond in nanoseconds (the factor 1e6 of SEEK_BACK_NANOSECONDS).
Ms == 1000000

\* The look-back of a backfill read: 299 ms.
SEEK_BACK_NANOSECONDS == 299 * Ms

\* The look-ahead of the initial seek (util/time, not part of src/): 99 ms.
SEEK_ON_START_NS == 99 * Ms

\* _speed's initial value 0.2, in tenths.
InitialSpeedTenths == 2

\* ---------------------------------------------------------------- bounds

\* The wall clock (Date.now()) advances at most to this value.
MaxClock == 1
\* setListener is called at most this many times.
MaxSetListener == 1
\* requestBackfill() is called at most this many times.
MaxBackfillRequests == 1
\* close() is called at most this many times.
MaxCloses == 2
\* A fragment appended to a McapReader has at most this many bytes.
MaxFragment == 3
\* RosbridgePlayer's queue holds at most this many messages when one arrives.
MaxRosQueue == 1
\* useMessageDataItem's historySize option is at most this.
MaxHistorySize == 2
\* A batch given to addMessages has at most this many messages.
MaxBatch == 2
\* addMessages is called at most this many times.
MaxBatches == 3
\* restore calls with a previous value on one hook
MaxRestores == 1
\* setListener is called at most this many times by a caller that sets a
\* listener again.
MaxListeners == 2
\* _tick reads at most this many windows.
MaxTicks == 2
\* A connection of a RosbridgePlayer closes only while close() has been
\* called on its clients fewer than this many times.
MaxClientCloses == 2
\* The caller makes at most this many calls of startPlayback, pausePlayback,
\* setPlaybackSpeed, seekPlayback, requestBackfill and close that change
\* anything; the calls of the provider's callbacks are counted with them.
MaxControlCalls == 3
\* The same for the caller of a specification that has many operations at
\* once.
MaxFewCalls == 2
\* A RosbridgePlayer closes its clients at most this many times, and its
\* metrics collector as many, in the specification that has every event of
\* the player at once.
MaxFewCloses == 1

\* ---------------------------------------------------------------- inputs

NoTime == -1

\* A reading of performance.now() after the time origin; at the time
\* origin the reading is 0.
TickTaken == 1

\* Start times a provider may report.
StartChoices == {100 * Ms}
\* Arguments <<time, backfillDuration>> of seekPlayback (a duration of 0
\* stands for undefined): the start, the end with and without an extra
\* duration, and targets before the start and beyond the end.
SeekInputs ==
  {<<100 * Ms, 0>>, <<400 * Ms, 0>>, <<400 * Ms, 300 * Ms>>,
   <<0, 0>>, <<700 * Ms, 0>>}
\* Arguments of seekPlayback where the provider may fail.
LifecycleSeekInputs == {<<400 * Ms, 0>>}
\* Arguments of setPlaybackSpeed, in tenths.
SpeedChoices == {10}
\* Topics a caller may subscribe to.
TopicNames == {"a"}
\* Arguments of setSubscriptions: a caller subscribes to the topics.
SubscriptionChoices == {TopicNames}
\* The time from one tick to the next, in milliseconds (the difference of
\* two performance.now() readings): the 16 ms the loop of _read sleeps.
TickDurations == {16}

\* How a provider.initialize() promise settles.
InitOutcomes == {"ok", "noParsed", "raw", "reject"}
\* How a provider.getMessages() promise settles.
ReadOutcomes == {"ok", "bad", "reject"}
\* The same where only success and failure are told apart.
LifecycleReadOutcomes == {"ok", "reject"}
\* The same for a provider that answers every call, sometimes with a result
\* without parsedMessages, sometimes with a message on a topic that was not
\* asked for.
OddReadOutcomes == {"ok", "bad", "stray"}
\* A caller subscribes to a topic with a datatype and to one without.
OddSubscriptionChoices == {{"a", "e"}}

\* The topics the provider reports from initialize().
ProviderTopicList ==
  {[name |-> "a", datatype |-> "dt"], [name |-> "e", datatype |-> ""]}

\* The receive times of the messages the provider holds (on topic "a").
ProviderMessageTimes == {100 * Ms, 200 * Ms}

\* The messages the provider holds: those on topic "a" and one on topic
\* "e", whose datatype is empty.
ProviderMessages ==
  {[topic |-> "a", receiveTime |-> t] : t \in ProviderMessageTimes}
    \cup {[topic |-> "e", receiveTime |-> 201 * Ms]}

\* ------------------------------------------------------------- variables

VARIABLES
  \* RandomAccessPlayer's fields
  listener,               \* whether _listener is set
  isPlaying,              \* _isPlaying
  speed,                  \* _speed, in tenths
  start,                  \* _start
  end,                    \* _end
  nextReadStartTime,      \* _nextReadStartTime
  lastSeekStartTime,      \* _lastSeekStartTime
  lastSeekEmitTime,       \* _lastSeekEmitTime
  lastTickMillis,         \* _lastTickMillis: NoTime (undefined), 0 or TickTaken
  lastRangeMillis,        \* _lastRangeMillis (NoRange: undefined)
  cancelSeekBackfill,     \* _cancelSeekBackfill
  parsedSubscribedTopics, \* _parsedSubscribedTopics
  providerTopics,         \* _providerTopics
  initializing,           \* _initializing
  initialized,            \* _initialized
  reconnecting,           \* _reconnecting
  hasError,               \* _hasError
  closed,                 \* _closed
  messages,               \* _messages
  currentTime,            \* _currentTime (NoTime: undefined)
  problems,               \* _problems: the key and severity of each entry
  readingMutex,           \* _readingMutex.isLocked()
  backfillMutex,          \* _backfillMutex.isLocked()
  emitCalling,            \* debouncePromise(_emitState): a call is in flight
  emitPending,            \* debouncePromise(_emitState): a call is pending
  \* the activations of the asynchronous functions
  tick,                   \* _read / _tick: where the loop waits, and its locals
  bf,                     \* _seekPlaybackInternal: the activation in the mutex
  bfOut,                  \* _seekPlaybackInternal: the activation outside it
  \* the environment
  now,                    \* Date.now()
  perfNow,                \* performance.now() as last read: 0 or TickTaken
  provStart,              \* the start time the provider reports
  initCalls,              \* calls of provider.initialize so far
  initPending,            \* provider.initialize promises not yet settled
  providerCloses,         \* calls of provider.close so far
  metricsCloses,          \* calls of metricsCollector.close so far
  closeCalls,             \* calls of close() so far
  requestCalls,           \* calls of requestBackfill() so far
  tickCalls,              \* windows computed by _tick so far
  controlCalls,           \* calls of playback controls that had an effect
  emitted,                \* the listener call in flight: the state it was given
  hist,                   \* what has been observed so far (history only)
  \* the other objects, and which of them a behaviour is about
  subject,                \* the object that has been constructed
  ros,                    \* RosbridgePlayer's fields and its environment
  mcap,                   \* McapReader's fields and its caller
  item                    \* useMessageDataItem's reduced value and its batches

\* The variables of a RandomAccessPlayer and its environment.
randomAccessVars ==
  <<listener, isPlaying, speed, start, end, nextReadStartTime,
    lastSeekStartTime, lastSeekEmitTime, lastTickMillis, lastRangeMillis,
    cancelSeekBackfill,
    parsedSubscribedTopics, providerTopics, initializing, initialized,
    reconnecting, hasError, closed, messages, currentTime, problems,
    readingMutex, backfillMutex, emitCalling, emitPending, tick, bf,
    bfOut, now, perfNow, provStart, initCalls, initPending, providerCloses,
    metricsCloses, closeCalls, requestCalls, tickCalls, controlCalls,
    emitted, hist>>

vars == <<randomAccessVars, subject, ros, mcap, item>>

\* The whole state as one record, so that the code's sequential statements
\* compose as operators from state to state.
World ==
  [listener |-> listener, isPlaying |-> isPlaying, speed |-> speed,
   start |-> start, end |-> end, nextReadStartTime |-> nextReadStartTime,
   lastSeekStartTime |-> lastSeekStartTime,
   lastSeekEmitTime |-> lastSeekEmitTime,
   lastTickMillis |-> lastTickMillis, lastRangeMillis |-> lastRangeMillis,
   cancelSeekBackfill |-> cancelSeekBackfill,
   parsedSubscribedTopics |-> parsedSubscribedTopics,
   providerTopics |-> providerTopics, initializing |-> initializing,
   initialized |-> initialized, reconnecting |-> reconnecting,
   hasError |-> hasError, closed |-> closed, messages |-> messages,
   currentTime |-> currentTime, problems |-> problems,
   readingMutex |-> readingMutex, backfillMutex |-> backfillMutex,
   emitCalling |-> emitCalling, emitPending |-> emitPending, tick |-> tick,
   bf |-> bf, bfOut |-> bfOut, now |-> now, perfNow |-> perfNow,
   provStart |-> provStart, initCalls |-> initCalls,
   initPending |-> initPending, providerCloses |-> providerCloses,
   metricsCloses |-> metricsCloses, closeCalls |-> closeCalls,
   requestCalls |-> requestCalls, tickCalls |-> tickCalls,
   controlCalls |-> controlCalls,
   emitted |-> emitted, hist |-> hist]

\* The step of a RandomAccessPlayer to state w.
Commit(w) ==
  /\ subject = "RandomAccessPlayer"
  /\ UNCHANGED <<subject, ros, mcap, item>>
  /\ listener' = w.listener
  /\ isPlaying' = w.isPlaying
  /\ speed' = w.speed
  /\ start' = w.start
  /\ end' = w.end
  /\ nextReadStartTime' = w.nextReadStartTime
  /\ lastSeekStartTime' = w.lastSeekStartTime
  /\ lastSeekEmitTime' = w.lastSeekEmitTime
  /\ lastTickMillis' = w.lastTickMillis
  /\ lastRangeMillis' = w.lastRangeMillis
  /\ cancelSeekBackfill' = w.cancelSeekBackfill
  /\ parsedSubscribedTopics' = w.parsedSubscribedTopics
  /\ providerTopics' = w.providerTopics
  /\ initializing' = w.initializing
  /\ initialized' = w.initialized
  /\ reconnecting' = w.reconnecting
  /\ hasError' = w.hasError
  /\ closed' = w.closed
  /\ messages' = w.messages
  /\ currentTime' = w.currentTime
  /\ problems' = w.problems
  /\ readingMutex' = w.readingMutex
  /\ backfillMutex' = w.backfillMutex
  /\ emitCalling' = w.emitCalling
  /\ emitPending' = w.emitPending
  /\ tick' = w.tick
  /\ bf' = w.bf
  /\ bfOut' = w.bfOut
  /\ now' = w.now
  /\ perfNow' = w.perfNow
  /\ provStart' = w.provStart
  /\ initCalls' = w.initCalls
  /\ initPending' = w.initPending
  /\ providerCloses' = w.providerCloses
  /\ metricsCloses' = w.metricsCloses
  /\ closeCalls' = w.closeCalls
  /\ requestCalls' = w.requestCalls
  /\ tickCalls' = w.tickCalls
  /\ controlCalls' = w.controlCalls
  /\ emitted' = w.emitted
  /\ hist' = w.hist

\* ---------------------------------------------------------------- helpers

\* @foxglove/rostime clampTime: a time clamped to [lo, hi].
clampTime(time, lo, hi) ==
  IF lo > time THEN lo ELSE IF hi < time THEN hi ELSE time

\* The elements of a set of messages as a sequence in receive-time order.
RECURSIVE InTimeOrder(_)
InTimeOrder(msgs) ==
  IF msgs = {} THEN <<>>
  ELSE LET first == CHOOSE m \in msgs :
                      \A o \in msgs : m.receiveTime <= o.receiveTime
       IN <<first>> \o InTimeOrder(msgs \ {first})

\* provider.getMessages(start, end, {parsedMessages: topics}): the provider's
\* messages on the topics in the closed range, in time order.
ProviderGetMessages(from, to, topics) ==
  InTimeOrder({m \in ProviderMessages :
                 /\ m.topic \in topics
                 /\ from <= m.receiveTime
                 /\ m.receiveTime <= to})

\* The parsedMessages of a provider.getMessages result.  With outcome "stray"
\* a message on topic "b", which the provider does not list and nobody has
\* asked for, comes first.
ProviderResult(outcome, from, to, topics) ==
  IF outcome = "stray"
  THEN <<[topic |-> "b", receiveTime |-> from]>>
         \o ProviderGetMessages(from, to, topics)
  ELSE ProviderGetMessages(from, to, topics)

\* util/selectors getSanitizedTopics: the subscribed topics the provider has.
getSanitizedTopics(subscribed, topics) ==
  {t \in subscribed : \E p \in topics : p.name = t}

\* util/time getSeekTimeFromSpec with the default spec: SEEK_ON_START_NS past
\* the start, clamped to the range.
getSeekTimeFromSpec(from, to) == clampTime(from + SEEK_ON_START_NS, from, to)

\* The provider's data spans this long from its start time.
ProviderSpan == 300 * Ms
\* The end time the provider reports.
ProviderEnd(from) == from + ProviderSpan

\* ---------------------------------------------------------------- _problems

\* this._problems.delete(key)
DeleteProblem(probs, key) == {p \in probs : p.key # key}

\* this._problems.set(key, {severity, message}): the entry of the key is
\* replaced.
SetProblem(probs, key, severity) ==
  DeleteProblem(probs, key) \cup {[key |-> key, severity |-> severity]}

\* ---------------------------------------------------- emission to listener

\* Before the listener has been called: no state yet.
NoEmission ==
  [presence |-> "NONE", active |-> FALSE, messages |-> <<>>,
   currentTime |-> NoTime, startTime |-> NoTime, endTime |-> NoTime,
   isPlaying |-> FALSE, speed |-> 0, lastSeekTime |-> NoTime,
   problems |-> {}]

\* The PlayerState _emitState builds when _hasError is set.
ErrorState(w) ==
  [presence |-> "ERROR", active |-> FALSE, messages |-> <<>>,
   currentTime |-> NoTime, startTime |-> NoTime, endTime |-> NoTime,
   isPlaying |-> FALSE, speed |-> 0, lastSeekTime |-> NoTime,
   problems |-> w.problems]

\* The presence _emitState reports when there is no error.
Presence(w) ==
  IF w.reconnecting THEN "RECONNECTING"
  ELSE IF w.initializing THEN "INITIALIZING" ELSE "PRESENT"

\* The PlayerState _emitState builds otherwise; activeData is undefined while
\* initializing.
DataState(w, msgs) ==
  IF w.initializing
  THEN [presence |-> Presence(w), active |-> FALSE, messages |-> <<>>,
        currentTime |-> NoTime, startTime |-> NoTime, endTime |-> NoTime,
        isPlaying |-> FALSE, speed |-> 0, lastSeekTime |-> NoTime,
        problems |-> w.problems]
  ELSE [presence |-> Presence(w), active |-> TRUE, messages |-> msgs,
        currentTime |-> w.currentTime, startTime |-> w.start,
        endTime |-> w.end, isPlaying |-> w.isPlaying, speed |-> w.speed,
        lastSeekTime |-> w.lastSeekEmitTime, problems |-> w.problems]

\* History only: no seek is waiting for its backfill to be emitted.
NoWant == [target |-> NoTime, from |-> NoTime, topics |-> {}]

\* No listener call is in flight: none has been made, or the wrapped
\* function has returned without one.
NoCall ==
  [state |-> NoEmission, closed |-> FALSE, afterError |-> FALSE,
   trend |-> "none", afterSeek |-> FALSE, want |-> NoWant,
   superseded |-> FALSE]

\* The currentTime of a state that reports playback, NoTime for any other.
PlayingTime(state) ==
  IF state.active /\ state.isPlaying THEN state.currentTime ELSE NoTime

\* History only: how the currentTime of a state compares with that of the
\* state emitted before it, when both report playback.
Trend(w, state) ==
  IF w.hist.lastPlayingTime = NoTime \/ PlayingTime(state) = NoTime
  THEN "none"
  ELSE IF state.currentTime > w.hist.lastPlayingTime THEN "up"
  ELSE IF state.currentTime = w.hist.lastPlayingTime THEN "same"
  ELSE "down"

\* History only: the state is the first one with activeData emitted after
\* the seek recorded in hist.want has completed.
EmitsSeek(w, state) ==
  /\ state.active /\ w.hist.want # NoWant
  /\ w.bf.phase = "idle" /\ w.bfOut.phase = "idle"

\* this._listener(state): the listener receives the state; its promise is
\* pending until ListenerDone.  Beside the state, `emitted` records the
\* circumstances of the call: whether a close() of a player with a listener
\* or a fatal fault came before it; how its currentTime compares with the
\* previous state's if both report playback, and whether a seek has
\* intervened; and, for the first state after a seek made while paused has
\* completed, what that seek asked for and whether another seek was called
\* during the backfill read that is emitted.
CallListener(w, state) ==
  [w EXCEPT !.emitted = [state |-> state,
                         closed |-> w.hist.closedListening,
                         afterError |-> w.hist.errorOccurred,
                         trend |-> Trend(w, state),
                         afterSeek |-> Trend(w, state) # "none"
                                         /\ w.hist.seekSince,
                         want |-> IF EmitsSeek(w, state)
                                  THEN w.hist.want ELSE NoWant,
                         superseded |-> EmitsSeek(w, state)
                                          /\ w.hist.superseded],
            !.emitCalling = TRUE,
            !.hist = [@ EXCEPT !.lastPlayingTime = PlayingTime(state),
                               !.calls = @ + 1,
                               !.seekSince = FALSE,
                               !.want = IF EmitsSeek(w, state)
                                        THEN NoWant ELSE @,
                               !.superseded = IF EmitsSeek(w, state)
                                              THEN FALSE ELSE @]]

\* A variant of ClampedLastEnd that leaves out the clamp to the range.
UnclampedLastEnd(w) ==
  IF w.nextReadStartTime > 0
  THEN w.nextReadStartTime - 1
  ELSE w.nextReadStartTime

\* currentTime as _emitState computes it from _nextReadStartTime.
ClampedLastEnd(w) ==
  LET lastEnd == IF w.nextReadStartTime > 0
                 THEN w.nextReadStartTime - 1
                 ELSE w.nextReadStartTime
  IN clampTime(lastEnd, w.start, w.end)

\* A variant of EmitStateBody that leaves out the branch for _hasError.
EmitStateBodyWithoutErrorBranch(w) ==
  IF ~w.listener THEN [w EXCEPT !.emitted = NoCall]
  ELSE LET msgs == w.messages
           w1 == [w EXCEPT !.messages = <<>>,
                           !.cancelSeekBackfill =
                              IF Len(msgs) > 0 THEN TRUE ELSE @,
                           !.currentTime = ClampedLastEnd(w)]
       IN CallListener(w1, DataState(w1, msgs))

\* The function wrapped by debouncePromise in _emitState.  Without a
\* listener it returns a resolved promise and calls nobody.
EmitStateBody(w) ==
  IF ~w.listener THEN [w EXCEPT !.emitted = NoCall]
  ELSE IF w.hasError THEN CallListener(w, ErrorState(w))
  ELSE LET msgs == w.messages
           w1 == [w EXCEPT !.messages = <<>>,
                           !.cancelSeekBackfill =
                              IF Len(msgs) > 0 THEN TRUE ELSE @,
                           !.currentTime = ClampedLastEnd(w)]
       IN CallListener(w1, DataState(w1, msgs))

\* debouncePromise: start(): the call is made now, and it is in flight
\* until the promise the wrapped function returns has settled, whether or
\* not the listener was called.
DebounceStart(w) ==
  EmitStateBody([w EXCEPT !.emitPending = FALSE, !.emitCalling = TRUE])

\* this._emitState(): debouncePromise makes the call at once unless one is in
\* flight, and then remembers that one is pending.
emitState(w) ==
  IF w.emitCalling THEN [w EXCEPT !.emitPending = TRUE] ELSE DebounceStart(w)

\* debouncePromise: the call in flight has finished; a pending call starts.
DebounceFinish(w) ==
  LET w1 == [w EXCEPT !.emitCalling = FALSE, !.emitted = NoCall,
                      !.hist = [@ EXCEPT !.calls =
                                  IF w.emitted # NoCall THEN @ - 1 ELSE @]]
  IN IF w1.emitPending THEN DebounceStart(w1) ELSE w1

\* -------------------------------------------------------------- _setError

\* A variant of setError that calls the listener itself instead of going
\* through the debounced _emitState.
setErrorCallingListener(w) ==
  EmitStateBody([w EXCEPT !.hasError = TRUE,
                          !.problems = SetProblem(@, "global-error", "error"),
                          !.isPlaying = FALSE,
                          !.providerCloses =
                             IF ~w.initializing THEN @ + 1 ELSE @,
                          !.hist = [@ EXCEPT !.errorOccurred = TRUE]])

\* _setError(message, error)
setError(w) ==
  emitState([w EXCEPT !.hasError = TRUE,
                      !.problems = SetProblem(@, "global-error", "error"),
                      !.isPlaying = FALSE,
                      !.providerCloses = IF ~w.initializing THEN @ + 1 ELSE @,
                      !.hist = [@ EXCEPT !.errorOccurred = TRUE]])

\* ----------------------------------------------------------- _getMessages

\* A variant of FilterKeeps that does not look at the datatype.
FilterKeepsAnyDatatype(m, topics, ptopics) ==
  /\ m.topic \in topics
  /\ \E p \in ptopics : p.name = m.topic

\* filterMessages keeps a message on a requested topic that the provider
\* lists with a datatype.
FilterKeeps(m, topics, ptopics) ==
  /\ m.topic \in topics
  /\ \E p \in ptopics : p.name = m.topic /\ p.datatype # ""

\* The messages filterMessages returns.
filterMessages(msgs, topics, ptopics) ==
  SelectSeq(msgs, LAMBDA m : FilterKeeps(m, topics, ptopics))

\* _problems after filterMessages has gone through msgs: each message
\* clears its topic's problem, and sets it again, with severity warn, when
\* it is skipped.
RECURSIVE filterProblems(_, _, _, _)
filterProblems(probs, msgs, topics, ptopics) ==
  IF msgs = <<>> THEN probs
  ELSE LET m == Head(msgs)
           next == IF FilterKeeps(m, topics, ptopics)
                   THEN DeleteProblem(probs, m.topic)
                   ELSE SetProblem(probs, m.topic, "warn")
       IN filterProblems(next, Tail(msgs), topics, ptopics)

\* _getMessages after provider.getMessages has resolved: the state.  outcome
\* "bad" is a result without parsedMessages.
GetMessagesState(w, outcome, raw, topics) ==
  IF outcome = "bad"
  THEN [w EXCEPT !.problems = SetProblem(@, "bad-messages", "error")]
  ELSE [w EXCEPT !.problems =
          filterProblems(DeleteProblem(@, "bad-messages"), raw, topics,
                         w.providerTopics)]

\* _getMessages after provider.getMessages has resolved: the value returned.
GetMessagesValue(w, outcome, raw, topics) ==
  IF outcome = "bad" THEN <<>>
  ELSE filterMessages(raw, topics, w.providerTopics)

\* An assignment to _nextReadStartTime.  The new Time is a new object: a
\* backfill in flight sees that the reference it captured is no longer the
\* current one (readStartTime !== this._nextReadStartTime).
AssignNextReadStartTime(w, time) ==
  [w EXCEPT !.nextReadStartTime = time,
            !.bf = [@ EXCEPT !.refChanged = (w.bf.phase # "idle") \/ @],
            !.bfOut = [@ EXCEPT !.refChanged = (w.bfOut.phase # "idle") \/ @]]

\* ------------------------------------------------------- _tick and _read

\* The activation of _read and _tick.  phase tells where it waits:
\*   "idle"      no _read holds the reading mutex
\*   "locked"    runExclusive has taken the mutex and has not yet called
\*               the function that holds the loop
\*   "read"      _tick awaits provider.getMessages inside _getMessages
\*   "resolved"  _getMessages has returned, _tick has not yet resumed
\*   "rejected"  _getMessages has rejected, _read has not yet caught it
\*   "emitWait"  _tick awaits the emission in flight
\*   "resumed"   the awaited emission promise is settled (or there was
\*               none), _tick has not yet gone on
\*   "delay"     the loop waits in delay() between two ticks
\*   "exit"      the loop has ended, runExclusive has not yet released the
\*               mutex
\* The field seekedInRead is history only: seekPlayback has been called
\* while the tick's provider read was in flight.
TickIdle ==
  [phase |-> "idle", seekTime |-> 0, start |-> 0, end |-> 0, topics |-> {},
   messages |-> <<>>, seekedInRead |-> FALSE]

\* The loop of _read waits in delay() between two ticks.
TickDelay == [TickIdle EXCEPT !.phase = "delay"]

\* The loop of _read has ended; the reading mutex is still held.
TickExit == [TickIdle EXCEPT !.phase = "exit"]

\* _tick returns; _read waits for the rest of the 16 ms.
TickReturn(w) == [w EXCEPT !.tick = TickDelay]

\* _tick after both awaits (lines 1017-1034).
TickCommit(w, msgs) ==
  IF w.lastSeekStartTime # w.tick.seekTime THEN TickReturn(w)
  ELSE LET w1 == AssignNextReadStartTime(w, w.tick.end + 1)
       IN IF ~w1.isPlaying THEN TickReturn(w1)
          ELSE TickReturn(emitState([w1 EXCEPT !.messages = @ \o msgs]))

\* _getMessages returns msgs to _tick, which resumes in a later
\* continuation.
TickGotMessages(w, msgs) ==
  [w EXCEPT !.tick = [@ EXCEPT !.phase = "resolved", !.messages = msgs]]

\* _tick resumes after `await this._getMessages` and awaits
\* this._emitState.currentPromise: the emission in flight if there is one,
\* and nothing otherwise; it goes on in a later continuation in both cases.
TickAfterRead(w) ==
  IF w.emitCalling
  THEN [w EXCEPT !.tick = [@ EXCEPT !.phase = "emitWait"]]
  ELSE [w EXCEPT !.tick = [@ EXCEPT !.phase = "resumed"]]

\* The emission _tick awaits has finished.
TickEmitDone(w) ==
  IF w.tick.phase = "emitWait"
  THEN [w EXCEPT !.tick = [@ EXCEPT !.phase = "resumed"]]
  ELSE w

\* JavaScript numbers are IEEE 754 doubles, and the range a tick reads is
\* computed in them.  A double that is not negative is the record
\* [m, e] of value m * 2^e, with the mantissa m a natural number of
\* MantissaBits binary digits, or 0 with e = 0.  A natural number too
\* large for one integer is the sequence of its digits to the base
\* LimbBase (its limbs), the least significant first and the most
\* significant not 0; <<>> is 0.
MantissaBits == 53
LimbBase == 2^14
\* The binary digits of a limb.
LimbBits == CHOOSE k \in 1..MantissaBits : 2^k = LimbBase

\* Limb i of a; 0 beyond its length.
Limb(a, i) == IF i >= 1 /\ i <= Len(a) THEN a[i] ELSE 0

\* A sequence of limbs without its leading zeros.
BigTrim(a) ==
  IF a = <<>> \/ a[Len(a)] # 0 THEN a
  ELSE LET used == {i \in 1..Len(a) : a[i] # 0}
       IN IF used = {} THEN <<>>
          ELSE SubSeq(a, 1, CHOOSE i \in used : \A j \in used : j <= i)

\* The natural number n as a sequence of limbs.
BigOf(n) ==
  BigTrim(<<n % LimbBase, (n \div LimbBase) % LimbBase,
            n \div (LimbBase * LimbBase)>>)

\* The integer a sequence of at most three limbs stands for.
BigToInt(a) ==
  Limb(a, 1) + LimbBase * Limb(a, 2) + LimbBase * LimbBase * Limb(a, 3)

\* The limbs of the number whose digits, not all below LimbBase, are
\* given, with a carry into the first.
RECURSIVE BigCarry(_, _)
BigCarry(digits, carry) ==
  IF digits = <<>> THEN BigOf(carry)
  ELSE LET sum == Head(digits) + carry
       IN <<sum % LimbBase>> \o BigCarry(Tail(digits), sum \div LimbBase)

\* a + b
BigAdd(a, b) ==
  IF a = <<>> THEN b
  ELSE IF b = <<>> THEN a
  ELSE LET length == IF Len(a) > Len(b) THEN Len(a) ELSE Len(b)
       IN BigTrim(BigCarry([i \in 1..length |-> Limb(a, i) + Limb(b, i)],
                           0))

\* a * b, for a of at most four limbs (a mantissa has four).
BigTimes(a, b) ==
  IF a = <<>> \/ b = <<>> THEN <<>>
  ELSE BigTrim(BigCarry([k \in 1..(Len(a) + Len(b) - 1) |->
                           Limb(a, 1) * Limb(b, k)
                             + Limb(a, 2) * Limb(b, k - 1)
                             + Limb(a, 3) * Limb(b, k - 2)
                             + Limb(a, 4) * Limb(b, k - 3)], 0))

\* The sign of a - b.
BigCompare(a, b) ==
  LET differ == {i \in 1..Len(a) : a[i] # Limb(b, i)}
      top == CHOOSE i \in differ : \A j \in differ : j <= i
  IN IF Len(a) < Len(b) THEN -1
     ELSE IF Len(a) > Len(b) THEN 1
     ELSE IF differ = {} THEN 0
     ELSE IF a[top] < b[top] THEN -1
     ELSE 1

\* a * 2^n
BigShiftLeft(a, n) ==
  IF a = <<>> \/ n = 0 THEN a
  ELSE LET limbs == n \div LimbBits
           low == 2^(n % LimbBits)
           high == 2^(LimbBits - (n % LimbBits))
       IN BigTrim([i \in 1..(Len(a) + limbs + 1) |->
                     (Limb(a, i - limbs) % high) * low
                       + Limb(a, i - limbs - 1) \div high])

\* a divided by 2^n, rounded down.
BigShiftRight(a, n) ==
  IF a = <<>> \/ n = 0 THEN a
  ELSE LET limbs == n \div LimbBits
           low == 2^(n % LimbBits)
           high == 2^(LimbBits - (n % LimbBits))
       IN BigTrim([i \in 1..Len(a) |->
                     Limb(a, i + limbs) \div low
                       + (Limb(a, i + limbs + 1) % low) * high])

\* The number of binary digits of a.
BigBits(a) ==
  IF a = <<>> THEN 0
  ELSE LimbBits * (Len(a) - 1)
         + (CHOOSE k \in 1..LimbBits :
              a[Len(a)] >= 2^(k - 1) /\ a[Len(a)] < 2^k)

\* a divided by the limb k, from limb i downwards with the remainder so
\* far: the digits of the quotient, the most significant first, and after
\* them the remainder.
RECURSIVE BigDivideFrom(_, _, _, _)
BigDivideFrom(a, k, i, remainder) ==
  IF i = 0 THEN <<remainder>>
  ELSE LET current == remainder * LimbBase + a[i]
       IN <<current \div k>> \o BigDivideFrom(a, k, i - 1, current % k)

\* The double 0.
DoubleZero == [m |-> <<>>, e |-> 0]

\* The double nearest to n * 2^e, the one with the even mantissa of two
\* that are equally near: the rounding of every operation on doubles.
\* Of the binary digits that a mantissa has no room for, the first tells
\* whether n lies in the upper half between two doubles, and the others
\* whether it lies off the middle.
DoubleOf(n, e) ==
  LET drop == BigBits(n) - MantissaBits
      floor == BigShiftRight(n, drop)
      halves == BigShiftRight(n, drop - 1)
      upperHalf == halves[1] % 2 = 1
      offMiddle == BigCompare(BigShiftLeft(halves, drop - 1), n) # 0
      rounded == IF upperHalf /\ (offMiddle \/ floor[1] % 2 = 1)
                 THEN BigAdd(floor, <<1>>)
                 ELSE floor
  IN IF n = <<>> THEN DoubleZero
     ELSE IF drop <= 0
     THEN [m |-> BigShiftLeft(n, -drop), e |-> e + drop]
     ELSE IF BigBits(rounded) > MantissaBits
     THEN [m |-> BigShiftRight(rounded, 1), e |-> e + drop + 1]
     ELSE [m |-> rounded, e |-> e + drop]

\* The double of a natural number.
DoubleOfInt(n) == DoubleOf(BigOf(n), 0)

\* The double a decimal literal of value p / q is read as, for q below
\* LimbBase: the nearest to it.  The quotient is taken to more binary
\* digits than a mantissa has, with one more digit that tells whether a
\* remainder was left.
DoubleOfRatio(p, q) ==
  LET guard == MantissaBits + 2 + LimbBits
      numerator == BigShiftLeft(BigOf(p), guard)
      length == Len(numerator)
      digits == BigDivideFrom(numerator, q, length, 0)
      quotient == BigTrim([i \in 1..length |-> digits[length + 1 - i]])
      inexact == IF digits[length + 1] = 0 THEN <<>> ELSE <<1>>
  IN IF p = 0 THEN DoubleZero
     ELSE DoubleOf(BigAdd(BigAdd(quotient, quotient), inexact),
                   -(guard + 1))

\* a * b in doubles
DoubleTimes(a, b) ==
  IF a = DoubleZero \/ b = DoubleZero THEN DoubleZero
  ELSE DoubleOf(BigTimes(a.m, b.m), a.e + b.e)

\* a and b as multiples of one power of two: the multiples and the
\* exponent.
DoubleAligned(a, b) ==
  LET e == IF a.e < b.e THEN a.e ELSE b.e
  IN [a |-> BigShiftLeft(a.m, a.e - e),
      b |-> BigShiftLeft(b.m, b.e - e),
      e |-> e]

\* a + b in doubles
DoublePlus(a, b) ==
  IF a = DoubleZero THEN b
  ELSE IF b = DoubleZero THEN a
  ELSE LET both == DoubleAligned(a, b)
       IN DoubleOf(BigAdd(both.a, both.b), both.e)

\* Math.min(a, b)
DoubleMin(a, b) ==
  IF a = DoubleZero \/ b = DoubleZero THEN DoubleZero
  ELSE LET both == DoubleAligned(a, b)
       IN IF BigCompare(both.a, both.b) <= 0 THEN a ELSE b

\* Math.round(a), for a below 2^31: the integer nearest to a, the greater
\* of two that are equally near.
DoubleRound(a) ==
  IF a.e >= 0 THEN BigToInt(BigShiftLeft(a.m, a.e))
  ELSE BigToInt(BigShiftRight(BigAdd(a.m, BigShiftLeft(<<1>>, -a.e - 1)),
                              -a.e))

\* The doubles of the literals 0.9, 0.1 and 300 of _tick and of the 1e6 of
\* fromMillis.
NineTenths == DoubleOfRatio(9, 10)
OneTenth == DoubleOfRatio(1, 10)
LongestRangeMillis == DoubleOfInt(300)
NanosecondsPerMilli == DoubleOfInt(Ms)

\* _lastRangeMillis before the first tick and after setPlaybackSpeed.
NoRange == [m |-> <<>>, e |-> NoTime]

\* rangeMillis of _tick (lines 995-999), the value kept in
\* _lastRangeMillis: durationMillis in milliseconds, the speed in tenths
\* (the double of the speed is the one its decimal literal is read as),
\* lastRange the value of _lastRangeMillis.  Every product and the sum
\* are rounded as doubles are.
rangeMillis(durationMillis, tenths, lastRange) ==
  LET unsmoothed == DoubleMin(DoubleTimes(DoubleOfInt(durationMillis),
                                          DoubleOfRatio(tenths, 10)),
                              LongestRangeMillis)
  IN IF lastRange # NoRange
     THEN DoublePlus(DoubleTimes(lastRange, NineTenths),
                     DoubleTimes(unsmoothed, OneTenth))
     ELSE unsmoothed

\* @foxglove/rostime fromMillis of a range below one second, in
\* nanoseconds: Math.round(value * 1e6).
fromMillis(range) == DoubleRound(DoubleTimes(range, NanosecondsPerMilli))

\* _tick from its test of the read position to `await this._getMessages`
\* (lines 1001-1014), w0 holding the range in _lastRangeMillis.
TickWindow(w0) ==
  IF w0.nextReadStartTime > w0.end THEN TickReturn(w0)
  ELSE LET topics == getSanitizedTopics(w0.parsedSubscribedTopics,
                                        w0.providerTopics)
           w1 == [w0 EXCEPT
                    !.tick =
                      [phase |-> "read",
                       seekTime |-> w0.lastSeekStartTime,
                       start |-> clampTime(w0.nextReadStartTime,
                                           w0.start, w0.end),
                       end |-> clampTime(
                                 w0.nextReadStartTime
                                   + fromMillis(w0.lastRangeMillis),
                                 w0.start, w0.end),
                       topics |-> topics,
                       messages |-> <<>>,
                       seekedInRead |-> FALSE]]
       IN IF topics = {} THEN TickGotMessages(w1, <<>>) ELSE w1

\* _tick up to `await this._getMessages` (lines 978-1014): tickTime is
\* what performance.now() reads, sinceLastTick the milliseconds since the
\* reading kept in _lastTickMillis.  A reading of 0 counts as none.
\* Without subscribed topics _getMessages returns without a provider call.
TickBegin(w, tickTime, sinceLastTick) ==
  IF w.initializing \/ ~w.isPlaying \/ w.hasError THEN TickReturn(w)
  ELSE LET durationMillis == IF w.lastTickMillis # NoTime
                                  /\ w.lastTickMillis # 0
                             THEN sinceLastTick ELSE 20
       IN TickWindow([w EXCEPT
                        !.lastTickMillis = tickTime,
                        !.perfNow = tickTime,
                        !.lastRangeMillis =
                          rangeMillis(durationMillis, w.speed,
                                      w.lastRangeMillis),
                        !.tickCalls = @ + 1])

\* The loop test of _read and, when it passes, the next _tick; otherwise the
\* loop ends, and runExclusive releases the reading mutex in a later
\* continuation.
ReadLoop(w, tickTime, sinceLastTick) ==
  IF w.isPlaying /\ ~w.hasError THEN TickBegin(w, tickTime, sinceLastTick)
  ELSE [w EXCEPT !.tick = TickExit]

\* runExclusive releases the reading mutex.
ReadRelease(w) == [w EXCEPT !.readingMutex = FALSE, !.tick = TickIdle]

\* _read(): runExclusive takes the reading mutex at once and calls the
\* function that holds the loop in a later continuation.
read(w) ==
  IF w.readingMutex THEN w
  ELSE [w EXCEPT !.readingMutex = TRUE,
                 !.tick = [TickIdle EXCEPT !.phase = "locked"]]

\* The catch of _read: a rejected read ends the loop with _setError.
ReadCatch(w) == [setError(w) EXCEPT !.tick = TickExit]

\* _getMessages rejects; _tick and the loop of _read get the rejection in
\* a later continuation.
TickGotRejection(w) == [w EXCEPT !.tick = [@ EXCEPT !.phase = "rejected"]]

\* ------------------------------------------------- _seekPlaybackInternal

\* An activation of _seekPlaybackInternal.  phase tells where it waits:
\*   "idle"      there is none
\*   "locked"    runExclusive has taken the backfill mutex and has not yet
\*               called its function
\*   "read"      _getMessages awaits provider.getMessages
\*   "resolved"  _getMessages has returned, runExclusive has not yet
\*               released the mutex
\*   "rejected"  _getMessages has rejected, runExclusive has not yet
\*               released the mutex
\*   "released"  runExclusive has released the mutex,
\*               _seekPlaybackInternal has not yet resumed (rejected: with
\*               the rejection of the read)
\*   "waiting"   runExclusive waits for the mutex, which another
\*               activation holds
\* The activation in the first five phases is `bf`, the one in the last
\* two is `bfOut`.  Three fields are history only: the round of the loop
\* was begun by the handler of initialize (initial), and since it began
\* seekPlayback has been called (seeked) and startPlayback has started
\* playback (played).
BackfillIdle ==
  [phase |-> "idle", readStartTime |-> 0, refChanged |-> FALSE, start |-> 0,
   end |-> 0, duration |-> 0, topics |-> {}, messages |-> <<>>,
   rejected |-> FALSE, initial |-> FALSE, seeked |-> FALSE,
   played |-> FALSE]

\* One round of the do-while loop up to the await (lines 1176-1215), of an
\* activation that is in neither `bf` nor `bfOut`: runExclusive takes the
\* backfill mutex at once and calls _getMessages in a later continuation,
\* or waits for the mutex when another activation holds it.
BackfillLoop(w, duration) ==
  IF w.isPlaying
  THEN [w EXCEPT !.lastSeekEmitTime = w.now]
  ELSE LET readStartTime == w.nextReadStartTime
           backfillEnd == clampTime(readStartTime, w.start, w.end)
           internal == IF w.isPlaying THEN 0 ELSE SEEK_BACK_NANOSECONDS
           total == internal + duration
           backfillStart == clampTime(readStartTime - total, w.start, w.end)
           activation == [phase |-> "locked",
                          readStartTime |-> readStartTime,
                          refChanged |-> FALSE,
                          start |-> backfillStart,
                          end |-> backfillEnd,
                          duration |-> duration,
                          topics |-> {},
                          messages |-> <<>>,
                          rejected |-> FALSE,
                          initial |-> FALSE,
                          seeked |-> FALSE,
                          played |-> FALSE]
           w1 == [w EXCEPT !.cancelSeekBackfill = FALSE, !.messages = <<>>]
       IN IF w.backfillMutex
          THEN [w1 EXCEPT !.bfOut = [activation EXCEPT !.phase = "waiting"]]
          ELSE [w1 EXCEPT !.backfillMutex = TRUE, !.bf = activation]

\* _getMessages returns msgs to the function runExclusive has called;
\* runExclusive releases the mutex in a later continuation.
BackfillGotMessages(w, msgs) ==
  [w EXCEPT !.bf = [@ EXCEPT !.phase = "resolved", !.messages = msgs]]

\* runExclusive calls its function: _getMessages up to its await (lines
\* 1216, 1062-1069).  Without subscribed topics it returns without a
\* provider call.
BackfillBegin(w) ==
  LET topics == getSanitizedTopics(w.parsedSubscribedTopics,
                                   w.providerTopics)
  IN IF topics = {} THEN BackfillGotMessages(w, <<>>)
     ELSE [w EXCEPT !.bf = [@ EXCEPT !.phase = "read", !.topics = topics]]

\* The finally of runExclusive (line 1215): the mutex is released, and an
\* activation that waits for it takes it at once; the activation that has
\* released it resumes in a later continuation.
BackfillRelease(w) ==
  LET released == [w.bf EXCEPT !.phase = "released",
                               !.rejected = (w.bf.phase = "rejected")]
  IN IF w.bfOut.phase = "waiting"
     THEN [w EXCEPT !.bf = [w.bfOut EXCEPT !.phase = "locked"],
                    !.bfOut = released]
     ELSE [w EXCEPT !.backfillMutex = FALSE,
                    !.bf = BackfillIdle,
                    !.bfOut = released]

\* _seekPlaybackInternal resumes with the messages of its read (lines
\* 1219-1234): emit the messages, or go round the loop again when
\* _nextReadStartTime has been assigned since.
BackfillAfterRead(w, msgs) ==
  LET w0 == [w EXCEPT !.bfOut = BackfillIdle]
  IN IF w.nextReadStartTime = w.bfOut.readStartTime /\ ~w.cancelSeekBackfill
     THEN LET w1 == AssignNextReadStartTime(w0, w.bfOut.end + 1)
          IN emitState([w1 EXCEPT
               !.messages = msgs,
               !.lastSeekEmitTime = w.now,
               !.hist = [@ EXCEPT !.superseded = w.bfOut.seeked]])
     ELSE IF w.bfOut.refChanged
          THEN BackfillLoop(w0, w.bfOut.duration)
          ELSE w0

\* _seekPlaybackInternal resumes with the rejection of its read and ends
\* there.
BackfillRejected(w) == [w EXCEPT !.bfOut = BackfillIdle]

\* _seekPlaybackInternal(backfillDuration)
seekPlaybackInternal(w, duration) ==
  IF w.backfillMutex THEN w ELSE BackfillLoop(w, duration)

\* ------------------------------------------------------ public operations

\* startPlayback()
startPlayback(w) ==
  IF w.isPlaying THEN w
  ELSE read(emitState(
         [w EXCEPT !.isPlaying = TRUE,
                   !.hist = [@ EXCEPT !.want = NoWant, !.superseded = FALSE],
                   !.bf = [@ EXCEPT !.played = (w.bf.phase # "idle") \/ @],
                   !.bfOut = [@ EXCEPT !.played =
                                (w.bfOut.phase # "idle") \/ @]]))

\* A variant of pausePlayback that empties the queue of messages.
pausePlaybackClearingQueue(w) ==
  IF ~w.isPlaying THEN w
  ELSE emitState([w EXCEPT !.lastTickMillis = NoTime,
                           !.isPlaying = FALSE, !.messages = <<>>])

\* pausePlayback()
pausePlayback(w) ==
  IF ~w.isPlaying THEN w
  ELSE emitState([w EXCEPT !.lastTickMillis = NoTime, !.isPlaying = FALSE])

\* setPlaybackSpeed(speed)
setPlaybackSpeed(w, s) ==
  emitState([w EXCEPT !.lastRangeMillis = NoRange, !.speed = s])

\* _setNextReadStartTime(time)
setNextReadStartTime(w, time) ==
  AssignNextReadStartTime(w, clampTime(time, w.start, w.end))

\* History only: seekPlayback(time, duration) is called.  The reads in
\* flight are marked, and a seek into the range made while paused is
\* recorded with the window its backfill is to read.
NoteSeek(w, time, duration) ==
  [w EXCEPT
     !.hist = [@ EXCEPT
        !.seekSince = (w.hist.lastPlayingTime # NoTime),
        !.want = IF ~w.isPlaying /\ w.start <= time /\ time <= w.end
                 THEN [target |-> time,
                       from |-> clampTime(
                          time - (SEEK_BACK_NANOSECONDS + duration),
                          w.start, w.end),
                       topics |-> w.parsedSubscribedTopics]
                 ELSE NoWant],
     !.tick = [@ EXCEPT !.seekedInRead = (w.tick.phase = "read") \/ @],
     !.bf = [@ EXCEPT !.seeked = (w.bf.phase # "idle") \/ @],
     !.bfOut = [@ EXCEPT !.seeked = (w.bfOut.phase # "idle") \/ @]]

\* A variant of seekPlayback that seeks before the player is initialized.
seekPlaybackUninitialized(w, time, duration) ==
  seekPlaybackInternal(
    setNextReadStartTime(NoteSeek(w, time, duration), time), duration)

\* seekPlayback(time, backfillDuration)
seekPlayback(w, time, duration) ==
  IF ~w.initialized THEN w
  ELSE seekPlaybackInternal(
         setNextReadStartTime(NoteSeek(w, time, duration), time), duration)

\* requestBackfill()
requestBackfill(w) ==
  IF w.isPlaying \/ w.initializing \/ w.currentTime = NoTime THEN w
  ELSE seekPlayback(w, w.currentTime, 0)

\* setSubscriptions(newSubscriptions)
setSubscriptions(w, topics) ==
  [w EXCEPT !.parsedSubscribedTopics = topics,
            !.hist = [@ EXCEPT !.want = NoWant, !.superseded = FALSE]]

\* close()
close(w) ==
  [w EXCEPT !.isPlaying = FALSE,
            !.closed = TRUE,
            !.providerCloses =
               IF ~w.initializing /\ ~w.hasError THEN @ + 1 ELSE @,
            !.metricsCloses = @ + 1,
            !.closeCalls = @ + 1,
            !.hist = [@ EXCEPT !.closedListening = @ \/ w.listener]]

\* setListener(listener) up to the call of provider.initialize.
setListener(w) ==
  [emitState([w EXCEPT !.listener = TRUE])
     EXCEPT !.initCalls = @ + 1, !.initPending = @ + 1]

\* _reportInitialized()
reportInitialized(w) ==
  IF w.initializing \/ w.initialized THEN w
  ELSE [w EXCEPT !.initialized = TRUE]

\* History only: the round of _seekPlaybackInternal that the seek of the
\* initialize handler has begun, if it has begun one, is marked.
NoteInitialSeek(w, after) ==
  IF ~w.backfillMutex /\ after.backfillMutex
  THEN [after EXCEPT !.bf = [@ EXCEPT !.initial = TRUE]]
  ELSE after

\* The then-handler of provider.initialize in setListener (lines 855-883).
InitializeResolved(w, outcome) ==
  IF outcome = "noParsed" THEN setError(w)
  ELSE IF outcome = "raw" THEN setError(w)
  ELSE LET from == w.provStart
           to == ProviderEnd(w.provStart)
           initialTime == getSeekTimeFromSpec(from, to)
           w1 == AssignNextReadStartTime(
                   [w EXCEPT !.start = from, !.end = to,
                             !.providerTopics = ProviderTopicList,
                             !.initializing = FALSE,
                             !.currentTime = initialTime],
                   initialTime)
       IN NoteInitialSeek(
            w, seekPlayback(reportInitialized(w1), initialTime, 0))

\* setParameter(key, value): it throws.
setParameter(w) == [w EXCEPT !.hist = [@ EXCEPT !.raised = TRUE]]

\* publish(payload): it throws.
publish(w) == [w EXCEPT !.hist = [@ EXCEPT !.raised = TRUE]]

\* progressCallback of provider.initialize
progressCallback(w) == IF ~w.isPlaying THEN emitState(w) ELSE w

\* reportMetadataCallback with an updateReconnecting metadata
updateReconnecting(w, b) == emitState([w EXCEPT !.reconnecting = b])

\* ------------------------------------------------------------- McapReader

\* McapReader (src/unnamed/part_005) reads records from bytes appended in
\* fragments.  The byte format itself (constants.ts, parse.ts) and
\* ByteStorage are not part of src/: here a stream is a sequence of small
\* numbers, the magic is two bytes, and a record is one byte for its kind,
\* one byte for the length of its payload, and the payload.  The payload of
\* a chunk is one byte for its compression (0: none) and the records in it.

\* constants.ts MCAP_MAGIC
MCAP_MAGIC == <<137, 77>>

\* The kinds of record, in the order of their type bytes.
RecordTypes ==
  <<"ChannelInfo", "Message", "Chunk", "IndexData", "ChunkInfo", "Footer">>

\* The type byte of a kind of record.
Opcode(type) == CHOOSE i \in 1..Len(RecordTypes) : RecordTypes[i] = type

\* The bytes of a record.
EncodeRecord(type, payload) == <<Opcode(type), Len(payload)>> \o payload

\* What nextRecord returns when it has no record: undefined.
Undefined == [type |-> "undefined", data |-> <<>>]

\* The bytes of view from offset (counted from 0) on.
ViewFrom(view, offset) == SubSeq(view, offset + 1, Len(view))

\* parse.ts parseMagic(view, 0): no magic while the bytes are too few, a
\* failure when they are not the magic.
parseMagic(view) ==
  IF Len(view) < Len(MCAP_MAGIC) THEN [status |-> "none", usedBytes |-> 0]
  ELSE IF SubSeq(view, 1, Len(MCAP_MAGIC)) # MCAP_MAGIC
       THEN [status |-> "throw", usedBytes |-> 0]
       ELSE [status |-> "ok", usedBytes |-> Len(MCAP_MAGIC)]

\* parse.ts parseRecord(view, offset): no record while the bytes from offset
\* on do not hold a whole record, a failure for an unknown type byte.
parseRecord(view, offset) ==
  LET bytes == ViewFrom(view, offset)
  IN IF Len(bytes) < 2 \/ Len(bytes) < 2 + bytes[2]
     THEN [status |-> "none", usedBytes |-> 0, record |-> Undefined]
     ELSE IF bytes[1] \notin 1..Len(RecordTypes)
          THEN [status |-> "throw", usedBytes |-> 0, record |-> Undefined]
          ELSE [status |-> "ok", usedBytes |-> 2 + bytes[2],
                record |-> [type |-> RecordTypes[bytes[1]],
                            data |-> SubSeq(bytes, 3, 2 + bytes[2])]]

\* ByteStorage.consume(n)
StorageConsume(r, n) == [r EXCEPT !.storage = ViewFrom(@, n)]

\* The generator throws: it is finished from then on.
GeneratorThrows(r) ==
  [reader |-> [r EXCEPT !.pc = "ended"], kind |-> "throw", value |-> Undefined]

\* The generator yields value and is suspended at pc.
GeneratorYields(r, pc, value) ==
  [reader |-> [r EXCEPT !.pc = pc], kind |-> "yield", value |-> value]

\* A variant of readFooter that ends the read without returning the footer.
readFooterReturningNothing(r) ==
  LET m == parseMagic(r.storage)
  IN IF m.status = "none" THEN GeneratorYields(r, "footer", Undefined)
     ELSE IF m.status = "throw" THEN GeneratorThrows(r)
     ELSE LET r1 == StorageConsume(r, m.usedBytes)
          IN IF Len(r1.storage) # 0 THEN GeneratorThrows(r1)
             ELSE [reader |-> [r1 EXCEPT !.pc = "ended"], kind |-> "return",
                   value |-> Undefined]

\* read(), the Footer case (lines 128-141): the trailing magic must follow,
\* and nothing after it.
readFooter(r) ==
  LET m == parseMagic(r.storage)
  IN IF m.status = "none" THEN GeneratorYields(r, "footer", Undefined)
     ELSE IF m.status = "throw" THEN GeneratorThrows(r)
     ELSE LET r1 == StorageConsume(r, m.usedBytes)
          IN IF Len(r1.storage) # 0 THEN GeneratorThrows(r1)
             ELSE [reader |-> [r1 EXCEPT !.pc = "ended"], kind |-> "return",
                   value |-> r.record]

RECURSIVE readRecord(_)
RECURSIVE readChunkContents(_)

\* A variant of readChunkContents that yields a record of any kind.
readChunkContentsOfAnyKind(r) ==
  LET c == parseRecord(r.buffer, r.chunkOffset)
  IN IF c.status = "throw" THEN GeneratorThrows(r)
     ELSE IF c.status = "ok"
          THEN GeneratorYields([r EXCEPT !.chunkOffset = @ + c.usedBytes],
                               "chunk", c.record)
          ELSE IF r.chunkOffset # Len(r.buffer) THEN GeneratorThrows(r)
               ELSE readRecord(r)

\* read(), the loop over the records of a chunk (lines 106-126).
readChunkContents(r) ==
  LET c == parseRecord(r.buffer, r.chunkOffset)
  IN IF c.status = "throw" THEN GeneratorThrows(r)
     ELSE IF c.status = "ok"
          THEN IF c.record.type \in {"Chunk", "IndexData", "ChunkInfo", "Footer"}
               THEN GeneratorThrows(r)
               ELSE GeneratorYields(
                      [r EXCEPT !.chunkOffset = @ + c.usedBytes],
                      "chunk", c.record)
          ELSE IF r.chunkOffset # Len(r.buffer) THEN GeneratorThrows(r)
               ELSE readRecord(r)

\* A variant of readChunk that reads a compressed chunk as it is.
readChunkOfAnyCompression(r) ==
  IF r.record.data = <<>> THEN GeneratorThrows(r)
  ELSE readChunkContents([r EXCEPT !.buffer = Tail(r.record.data),
                                   !.chunkOffset = 0])

\* read(), the Chunk case after the chunk itself may have been yielded
\* (lines 97-106): with no decompress handlers, a compressed chunk fails.
readChunk(r) ==
  IF r.record.data = <<>> THEN GeneratorThrows(r)
  ELSE IF r.record.data[1] # 0 THEN GeneratorThrows(r)
  ELSE readChunkContents([r EXCEPT !.buffer = Tail(r.record.data),
                                   !.chunkOffset = 0])

\* A variant of readRecord that empties the buffer when it holds no whole
\* record.
readRecordDroppingPartial(r) ==
  LET p == parseRecord(r.storage, 0)
  IN IF p.status = "none"
     THEN GeneratorYields([r EXCEPT !.storage = <<>>], "record", Undefined)
     ELSE IF p.status = "throw" THEN GeneratorThrows(r)
     ELSE LET r1 == [StorageConsume(r, p.usedBytes) EXCEPT !.record = p.record]
          IN IF p.record.type \in {"ChannelInfo", "Message", "IndexData",
                                   "ChunkInfo"}
             THEN GeneratorYields(r1, "record", p.record)
             ELSE IF p.record.type = "Chunk"
                  THEN IF r1.includeChunks
                       THEN GeneratorYields(r1, "chunkYielded", p.record)
                       ELSE readChunk(r1)
                  ELSE readFooter(r1)

\* read(), one round of the loop over the records of the stream (lines 76-96).
readRecord(r) ==
  LET p == parseRecord(r.storage, 0)
  IN IF p.status = "none" THEN GeneratorYields(r, "record", Undefined)
     ELSE IF p.status = "throw" THEN GeneratorThrows(r)
     ELSE LET r1 == [StorageConsume(r, p.usedBytes) EXCEPT !.record = p.record]
          IN IF p.record.type \in {"ChannelInfo", "Message", "IndexData",
                                   "ChunkInfo"}
             THEN GeneratorYields(r1, "record", p.record)
             ELSE IF p.record.type = "Chunk"
                  THEN IF r1.includeChunks
                       THEN GeneratorYields(r1, "chunkYielded", p.record)
                       ELSE readChunk(r1)
                  ELSE readFooter(r1)

\* read(), the leading magic (lines 68-74).
readMagic(r) ==
  LET m == parseMagic(r.storage)
  IN IF m.status = "none" THEN GeneratorYields(r, "magic", Undefined)
     ELSE IF m.status = "throw" THEN GeneratorThrows(r)
     ELSE readRecord(StorageConsume(r, m.usedBytes))

\* this.generator.next(): read() runs on from where it is suspended.
generatorNext(r) ==
  IF r.pc = "magic" THEN readMagic(r)
  ELSE IF r.pc = "record" THEN readRecord(r)
  ELSE IF r.pc = "chunkYielded" THEN readChunk(r)
  ELSE IF r.pc = "chunk" THEN readChunkContents(r)
  ELSE IF r.pc = "footer" THEN readFooter(r)
  ELSE [reader |-> r, kind |-> "return", value |-> Undefined]

\* nextRecord(): the reader afterwards, the value returned, and whether the
\* call has thrown instead.
nextRecord(r) ==
  IF r.doneReading
  THEN [reader |-> r, value |-> Undefined, threw |-> FALSE]
  ELSE LET result == generatorNext(r)
       IN [reader |-> [result.reader EXCEPT
                         !.doneReading = (result.kind = "return")],
           value |-> result.value,
           threw |-> (result.kind = "throw")]

\* A new McapReader.
NewReader(includeChunks) ==
  [storage |-> <<>>, pc |-> "magic", record |-> Undefined, buffer |-> <<>>,
   chunkOffset |-> 0, doneReading |-> FALSE, includeChunks |-> includeChunks]

\* The streams a caller feeds to a McapReader.
ChannelInfoBytes == EncodeRecord("ChannelInfo", <<7>>)
MessageBytes == EncodeRecord("Message", <<8>>)
FooterBytes == EncodeRecord("Footer", <<>>)

\* An uncompressed chunk with the given records in it.
ChunkBytes(contents) == EncodeRecord("Chunk", <<0>> \o contents)

\* [magic][channel-info][message][footer][magic]
ExampleStream ==
  MCAP_MAGIC \o ChannelInfoBytes \o MessageBytes \o FooterBytes \o MCAP_MAGIC

\* A chunk of two records, then index records.
ChunkStream ==
  MCAP_MAGIC \o ChunkBytes(ChannelInfoBytes \o MessageBytes)
    \o EncodeRecord("IndexData", <<>>) \o EncodeRecord("ChunkInfo", <<>>)
    \o FooterBytes \o MCAP_MAGIC

\* An empty chunk between two records.
EmptyChunkStream ==
  MCAP_MAGIC \o ChannelInfoBytes \o ChunkBytes(<<>>) \o MessageBytes
    \o FooterBytes \o MCAP_MAGIC

\* A stream whose leading magic is wrong in its last byte.
BadMagicStream ==
  <<MCAP_MAGIC[1], MCAP_MAGIC[2] + 1>> \o MessageBytes \o FooterBytes
    \o MCAP_MAGIC

\* A stream with one byte after the trailing magic.
TrailingStream == ExampleStream \o <<9>>

\* A stream with a record of the given kind inside a chunk, after a message.
NestedStream(type) ==
  MCAP_MAGIC \o ChunkBytes(MessageBytes \o EncodeRecord(type, <<>>))
    \o FooterBytes \o MCAP_MAGIC

\* A chunk whose compression has no handler, after a record.
CompressedChunkStream ==
  MCAP_MAGIC \o ChannelInfoBytes
    \o EncodeRecord("Chunk", <<1>> \o MessageBytes)
    \o FooterBytes \o MCAP_MAGIC

\* A chunk with one byte after its last whole record.
LeftoverChunkStream ==
  MCAP_MAGIC \o ChunkBytes(MessageBytes \o <<Opcode("Message")>>)
    \o FooterBytes \o MCAP_MAGIC

\* The kinds of record that may not be inside a chunk.
ForbiddenInChunk == {"Chunk", "IndexData", "ChunkInfo", "Footer"}

McapStreams ==
  {[kind |-> "valid", bytes |-> b] :
     b \in {ExampleStream, ChunkStream, EmptyChunkStream}}
  \cup {[kind |-> "badMagic", bytes |-> BadMagicStream],
        [kind |-> "trailing", bytes |-> TrailingStream],
        [kind |-> "compressed", bytes |-> CompressedChunkStream],
        [kind |-> "leftover", bytes |-> LeftoverChunkStream]}
  \cup {[kind |-> "nested", bytes |-> NestedStream(t)] : t \in ForbiddenInChunk}

\* A reader and its caller: the stream the caller feeds it, the bytes not yet
\* appended, and what the calls so far have returned.  History only:
\*   out          the records nextRecord has returned, in order
\*   last         how the latest nextRecord call ended
\*   threw        a nextRecord call has thrown
\*   appendThrew  an append call has thrown
\*   lateRecord   nextRecord has returned a record after one has thrown
\*   bytewise     every append so far was of one byte
\*   moreConsumed a call that returned undefined before the end took bytes
\*   stallConsumed a call that found no whole magic or record where the
\*                read was suspended took bytes all the same
McapCaller(stream, includeChunks) ==
  [reader |-> NewReader(includeChunks), stream |-> stream,
   rest |-> stream.bytes, out |-> <<>>, last |-> "none", threw |-> FALSE,
   appendThrew |-> FALSE, lateRecord |-> FALSE, bytewise |-> TRUE,
   moreConsumed |-> FALSE, stallConsumed |-> FALSE]

\* No reader has been constructed.
NoMcap == McapCaller([kind |-> "none", bytes |-> <<>>], FALSE)

\* append(data)
readerAppend(r, data) == [r EXCEPT !.storage = @ \o data]

\* The read is suspended where the buffer does not hold the whole magic or
\* record it is waiting for.
Stalled(r) ==
  \/ r.pc \in {"magic", "footer"} /\ parseMagic(r.storage).status = "none"
  \/ r.pc = "record" /\ parseRecord(r.storage, 0).status = "none"

\* What the caller knows after a nextRecord call with result res.
AfterNextRecord(m, res) ==
  LET gotRecord == ~res.threw /\ res.value # Undefined
      more == ~res.threw /\ res.value = Undefined /\ ~res.reader.doneReading
      took == res.reader.storage # m.reader.storage
  IN [m EXCEPT
        !.reader = res.reader,
        !.out = IF gotRecord THEN Append(@, res.value) ELSE @,
        !.last = IF res.threw THEN "throw"
                 ELSE IF gotRecord THEN "record"
                 ELSE IF more THEN "more" ELSE "done",
        !.threw = @ \/ res.threw,
        !.lateRecord = @ \/ (m.threw /\ gotRecord),
        !.moreConsumed = @ \/ (more /\ took),
        !.stallConsumed = @ \/ (Stalled(m.reader) /\ took)]

\* ---------------------------------------------------------- RosbridgePlayer

\* RosbridgePlayer (src/unnamed/part_004, lines 57-631).  The variable ros
\* holds its fields and its environment as one record:
\*   listener, closed, presence, rosClient (whether _rosClient is set),
\*   topicsKnown (whether _providerTopics and _providerDatatypes are set),
\*   providerTopics, start, clockTime (NoTime: undefined), parsedMessages,
\*   requested (_requestedSubscriptions, the topics), parsedTopics,
\*   topicSubscriptions, advertisements, topicPublishers, problems,
\*   emitCalling and emitPending (debouncePromise(_emitState)),
\*   emitTimer, requestTopicsTimeout, openTimer (the timers that are set),
\*   request (where _requestTopics waits), force (its forceUpdate),
\*   stallTimer (its topicsStallWarningTimeout is set), orphanStalls (how
\*   many stall timers of calls that will never be answered are set),
\*   socket (the roslib.Ros made by the latest _open), now (Date.now() in
\*   milliseconds), clientCloses, metricsCloses,
\*   emitted (the listener call in flight), and hist (history only: whether
\*   the presence has been PRESENT, the listener calls in flight, and
\*   whether an operation has thrown).
\* Times are in nanoseconds; the graph of publishers, subscribers and
\* services only passes through and is left out.

\* The topics the server has, each with a type and a definition.
RosServerTopics == {"/clock", "a"}
\* What getTopicsAndRawTypes may resolve to: the topics, whether a topic
\* without a type came with them, and whether a Log type tells the version.
RosTopicResults ==
  {[topics |-> RosServerTopics, missing |-> FALSE, versionKnown |-> TRUE]}
\* What it may resolve to on a server that has a topic without a type.
RosOddTopicResults ==
  {[topics |-> RosServerTopics, missing |-> m, versionKnown |-> TRUE] :
     m \in BOOLEAN}
\* Arguments of setSubscriptions.
RosSubscriptionChoices == {{"a"}}
\* The clock values of /clock messages.
RosClockValues == {2 * Ms, 1 * Ms}
\* What a message on a topic may be: well-formed, too short for its size,
\* or one that the reader cannot parse.
RosMessageKinds == {"ok", "short", "bad"}

\* No listener call is in flight.  wasPresent: the presence has been PRESENT
\* before the call.
NoRosCall == [state |-> NoEmission, wasPresent |-> FALSE]

\* A new RosbridgePlayer: the constructor, with _open() up to the events
\* of the connection.
NewRosbridge ==
  [listener |-> FALSE, closed |-> FALSE, presence |-> "INITIALIZING",
   rosClient |-> FALSE, topicsKnown |-> FALSE, providerTopics |-> {},
   start |-> 0, clockTime |-> NoTime, parsedMessages |-> <<>>,
   requested |-> {}, parsedTopics |-> {}, topicSubscriptions |-> {},
   advertisements |-> {}, topicPublishers |-> {}, problems |-> {},
   emitCalling |-> FALSE, emitPending |-> FALSE, emitTimer |-> FALSE,
   requestTopicsTimeout |-> FALSE, openTimer |-> FALSE,
   request |-> "idle", force |-> FALSE, stallTimer |-> FALSE,
   orphanStalls |-> 0, socket |-> "connecting", now |-> 0,
   clientCloses |-> 0, metricsCloses |-> 0, emitted |-> NoRosCall,
   hist |-> [wasPresent |-> FALSE, calls |-> 0, raised |-> FALSE]]

\* _getCurrentTime()
rosGetCurrentTime(r) == IF r.clockTime # NoTime THEN r.clockTime ELSE r.now * Ms

\* this._listener(state): the listener receives the state; its promise is
\* pending until the listener is done.
rosCallListener(r, state) ==
  [r EXCEPT !.emitted = [state |-> state, wasPresent |-> r.hist.wasPresent],
            !.emitCalling = TRUE,
            !.hist = [@ EXCEPT !.calls = @ + 1]]

\* The function wrapped by debouncePromise in _emitState (lines 313-376).
rosEmitStateBody(r) ==
  IF ~r.listener \/ r.closed THEN [r EXCEPT !.emitted = NoRosCall]
  ELSE IF ~r.topicsKnown
       THEN rosCallListener(r,
              [NoEmission EXCEPT !.presence = r.presence,
                                 !.problems = r.problems])
       ELSE LET r1 == [r EXCEPT !.emitTimer =
                                   IF r.presence = "PRESENT" THEN TRUE ELSE @,
                                !.parsedMessages = <<>>]
                time == rosGetCurrentTime(r)
            IN rosCallListener(r1,
                 [presence |-> r.presence, active |-> TRUE,
                  messages |-> r.parsedMessages, currentTime |-> time,
                  startTime |-> r.start, endTime |-> time,
                  isPlaying |-> TRUE, speed |-> 10, lastSeekTime |-> 1,
                  problems |-> r.problems])

\* debouncePromise: start(): the call is made now.
rosDebounceStart(r) ==
  rosEmitStateBody([r EXCEPT !.emitPending = FALSE, !.emitCalling = TRUE])

\* this._emitState()
rosEmitState(r) ==
  IF r.emitCalling THEN [r EXCEPT !.emitPending = TRUE]
  ELSE rosDebounceStart(r)

\* debouncePromise: the call in flight has finished; a pending call starts.
rosDebounceFinish(r) ==
  LET r1 == [r EXCEPT !.emitCalling = FALSE, !.emitted = NoRosCall,
                      !.hist = [@ EXCEPT !.calls =
                                  IF r.emitted # NoRosCall THEN @ - 1 ELSE @]]
  IN IF r1.emitPending THEN rosDebounceStart(r1) ELSE r1

\* _setupPublishers()
rosSetupPublishers(r) ==
  IF ~r.rosClient THEN r
  ELSE [r EXCEPT !.topicPublishers = @ \cup r.advertisements]

\* setSubscriptions(subscriptions).  _addInternalSubscriptions puts /clock
\* into the array it is given, which is the one kept as
\* _requestedSubscriptions.
rosSetSubscriptions(r, topics) ==
  IF ~r.rosClient \/ r.closed THEN [r EXCEPT !.requested = topics]
  ELSE LET subscriptions == topics \cup {"/clock"}
           topicNames == subscriptions \cap r.providerTopics
       IN [r EXCEPT !.requested = subscriptions,
                    !.parsedTopics = subscriptions,
                    !.topicSubscriptions = topicNames]

\* The problems _requestTopics removes when it starts.
RequestTopicsProblems ==
  {"requestTopics:missing-types", "requestTopics:system-state",
   "requestTopics:error"}

\* _requestTopics(opt) up to `await getTopicsAndRawTypes` (lines 169-199).
\* A call still waiting for an answer is waiting on a connection that has
\* gone: its stall timer stays set.
rosRequestTopics(r, forceUpdate) ==
  LET r1 == [r EXCEPT !.problems = @ \ RequestTopicsProblems,
                      !.requestTopicsTimeout = FALSE]
  IN IF ~r1.rosClient \/ r1.closed THEN r1
     ELSE [r1 EXCEPT !.orphanStalls = IF r.stallTimer THEN @ + 1 ELSE @,
                     !.stallTimer = TRUE,
                     !.request = "topics",
                     !.force = forceUpdate]

\* The finally of _requestTopics (lines 303-308).
rosRequestTopicsFinally(r) ==
  [rosEmitState(r) EXCEPT !.requestTopicsTimeout = TRUE, !.request = "idle"]

\* _requestTopics after getTopicsAndRawTypes has resolved, up to
\* `await this._getSystemState()` (lines 201-279).
rosTopicsResolved(r, result) ==
  LET r1 == [r EXCEPT
               !.stallTimer = FALSE,
               !.problems =
                  IF result.versionKnown
                  THEN @ \ {"topicsAndRawTypesTimeout", "unknownRosVersion"}
                  ELSE (@ \ {"topicsAndRawTypesTimeout"})
                         \cup {"unknownRosVersion"}]
  IN IF r1.topicsKnown /\ result.topics = r1.providerTopics /\ ~r1.force
     THEN rosRequestTopicsFinally(r1)
     ELSE LET r2 == [r1 EXCEPT
                       !.problems =
                          IF result.missing
                          THEN @ \cup {"requestTopics:missing-types"} ELSE @,
                       !.providerTopics = result.topics,
                       !.topicsKnown = TRUE]
          IN [rosSetSubscriptions(r2, r2.requested) EXCEPT !.request = "graph"]

\* _requestTopics after _getSystemState has settled (lines 280-292).
rosGraphSettled(r, ok) ==
  rosRequestTopicsFinally(
    [r EXCEPT !.problems =
       IF ok THEN @ ELSE @ \cup {"requestTopics:system-state"}])

\* _requestTopics after getTopicsAndRawTypes has rejected (lines 293-302).
rosTopicsRejected(r) ==
  rosRequestTopicsFinally(
    [r EXCEPT !.stallTimer = FALSE,
              !.problems = (@ \ {"topicsAndRawTypesTimeout"})
                             \cup {"requestTopics:error"}])

\* The callback of topicsStallWarningTimeout (lines 185-192).
rosStallWarning(r) ==
  rosEmitState([r EXCEPT !.problems = @ \cup {"topicsAndRawTypesTimeout"}])

\* _open() (lines 106-117): a new connection is attempted.
rosOpen(r) ==
  IF r.closed THEN r
  ELSE IF r.rosClient
       THEN [r EXCEPT !.hist = [@ EXCEPT !.raised = TRUE]]
       ELSE [r EXCEPT !.problems = @ \ {"rosbridge:connection-failed"},
                      !.socket = "connecting"]

\* rosClient.on("connection") (lines 119-130)
rosOnConnection(r) ==
  IF r.closed THEN r
  ELSE rosRequestTopics(
         rosSetupPublishers(
           [r EXCEPT !.presence = "PRESENT",
                     !.problems = @ \ {"rosbridge:connection-failed"},
                     !.rosClient = TRUE,
                     !.hist = [@ EXCEPT !.wasPresent = TRUE]]),
         TRUE)

\* rosClient.on("error") with an error (lines 132-141)
rosOnError(r) ==
  rosEmitState([r EXCEPT !.problems = @ \cup {"rosbridge:error"}])

\* A variant of rosOnClose that does not set the timer for _open.
rosOnCloseWithoutRetry(r) ==
  rosEmitState(
    [r EXCEPT !.presence = "RECONNECTING",
              !.requestTopicsTimeout = FALSE,
              !.topicSubscriptions = {},
              !.clientCloses = @ + 1,
              !.rosClient = FALSE,
              !.problems = @ \cup {"rosbridge:connection-failed"}])

\* rosClient.on("close") (lines 143-166); the handler closes the client
\* whose connection has closed.
rosOnClose(r) ==
  [rosEmitState(
     [r EXCEPT !.presence = "RECONNECTING",
               !.requestTopicsTimeout = FALSE,
               !.topicSubscriptions = {},
               !.clientCloses = @ + 1,
               !.rosClient = FALSE,
               !.problems = @ \cup {"rosbridge:connection-failed"}])
   EXCEPT !.openTimer = TRUE]

\* The problem of a topic's messages.
MessageProblem(topic) ==
  IF topic = "/clock" THEN "message:/clock" ELSE "message:a"

\* A variant of rosOnMessage in which a message that is read leaves the
\* topic's problem in place.
rosOnMessageKeepingProblem(r, topic, kind, clock) ==
  IF ~r.topicsKnown THEN r
  ELSE IF kind = "short"
  THEN rosEmitState([r EXCEPT !.problems = @ \cup {MessageProblem(topic)}])
  ELSE IF kind = "bad"
  THEN rosEmitState([r EXCEPT !.problems = @ \cup {MessageProblem(topic)}])
  ELSE LET r1 == IF topic = "/clock"
                 THEN [r EXCEPT !.start = IF r.clockTime = NoTime
                                          THEN clock ELSE @,
                                !.clockTime = clock]
                 ELSE r
           msg == [topic |-> topic, receiveTime |-> rosGetCurrentTime(r1)]
       IN rosEmitState(
            [r1 EXCEPT !.parsedMessages =
                          IF topic \in r1.parsedTopics
                          THEN Append(@, msg) ELSE @])

\* The callback of topic.subscribe (lines 436-500) for a message of the
\* given kind; clock is the clock value of a /clock message.
rosOnMessage(r, topic, kind, clock) ==
  IF ~r.topicsKnown THEN r
  ELSE IF kind = "short"
  THEN rosEmitState([r EXCEPT !.problems = @ \cup {MessageProblem(topic)}])
  ELSE IF kind = "bad"
  THEN rosEmitState([r EXCEPT !.problems = @ \cup {MessageProblem(topic)}])
  ELSE LET r1 == IF topic = "/clock"
                 THEN [r EXCEPT !.start = IF r.clockTime = NoTime
                                          THEN clock ELSE @,
                                !.clockTime = clock]
                 ELSE r
           msg == [topic |-> topic, receiveTime |-> rosGetCurrentTime(r1)]
       IN rosEmitState(
            [r1 EXCEPT !.parsedMessages =
                          IF topic \in r1.parsedTopics
                          THEN Append(@, msg) ELSE @,
                       !.problems = @ \ {MessageProblem(topic)}])

\* setListener(listener)
rosSetListener(r) == rosEmitState([r EXCEPT !.listener = TRUE])

\* close()
rosClose(r) ==
  [r EXCEPT !.closed = TRUE,
            !.clientCloses = IF r.rosClient THEN @ + 1 ELSE @,
            !.emitTimer = FALSE,
            !.metricsCloses = @ + 1]

\* setPublishers(publishers)
rosSetPublishers(r, topics) ==
  rosSetupPublishers([r EXCEPT !.topicPublishers = {},
                               !.advertisements = topics])

\* setParameter(key, value): it throws.
rosSetParameter(r) == [r EXCEPT !.hist = [@ EXCEPT !.raised = TRUE]]

\* publish({topic, msg}): it throws when the topic has no publisher.
rosPublish(r, topic) ==
  IF topic \notin r.topicPublishers
  THEN [r EXCEPT !.hist = [@ EXCEPT !.raised = TRUE]]
  ELSE r

\* ------------------------------------------------------ useMessageDataItem

\* What cachedGetMessagePathDataItems(path, messageEvent) gives for a
\* message: undefined, or an array of so many items.
QueriedData ==
  {[defined |-> FALSE, length |-> 0],
   [defined |-> TRUE, length |-> 0],
   [defined |-> TRUE, length |-> 1]}

\* The messages a batch may hold: id is the message's place in the order of
\* arrival, queriedData what the path gives for it.
MessageEvents(ids) == [id : ids, queriedData : QueriedData]

\* array.reverse()
Reverse(array) == [i \in 1..Len(array) |-> array[Len(array) + 1 - i]]

\* array.slice(-n) for n >= 0: the last n elements, and slice(-0) is
\* slice(0), the whole array.
SliceFromEnd(array, n) ==
  IF n = 0 \/ n >= Len(array)
  THEN array
  ELSE SubSeq(array, Len(array) - n + 1, Len(array))

\* The loop of addMessages: from messageEvents[i] backwards while fewer than
\* historySize matches have been found.
RECURSIVE NewMatches(_, _, _, _)
NewMatches(messageEvents, i, newMatches, historySize) ==
  IF i >= 1 /\ Len(newMatches) < historySize
  THEN LET messageEvent == messageEvents[i]
           queriedData == messageEvent.queriedData
       IN NewMatches(messageEvents, i - 1,
                     IF queriedData.defined /\ queriedData.length > 0
                     THEN Append(newMatches,
                                 [messageEvent |-> messageEvent,
                                  queriedData |-> queriedData])
                     ELSE newMatches,
                     historySize)
  ELSE newMatches

\* addMessages as it would be if every batch replaced the matches.
addMessagesDroppingHistory(prevValue, messageEvents, historySize) ==
  IF Len(messageEvents) = 0
  THEN prevValue
  ELSE [matches |-> Reverse(NewMatches(messageEvents, Len(messageEvents),
                                       <<>>, historySize)),
        messageEvents |-> messageEvents]

\* addMessages(prevValue, messageEvents) of a hook with the given historySize.
addMessages(prevValue, messageEvents, historySize) ==
  IF Len(messageEvents) = 0
  THEN prevValue
  ELSE LET newMatches == NewMatches(messageEvents, Len(messageEvents),
                                    <<>>, historySize)
           reversed == Reverse(newMatches)
       IN IF Len(newMatches) = historySize
          THEN [matches |-> reversed, messageEvents |-> messageEvents]
          ELSE [matches |-> SliceFromEnd(prevValue.matches \o reversed,
                                         historySize),
                messageEvents |-> messageEvents]

\* restore(undefined): the value the reducer starts from.
restore == [matches |-> <<>>, messageEvents |-> <<>>]

\* restore(prevValue) with a previous value, of a hook with the given
\* historySize: the previous batch is filtered again, front to back.
restorePrevValue(prevValue, historySize) ==
  LET newMatches ==
        SelectSeq([i \in 1..Len(prevValue.messageEvents) |->
                     [messageEvent |-> prevValue.messageEvents[i],
                      queriedData |-> prevValue.messageEvents[i].queriedData]],
                  LAMBDA m : m.queriedData.defined /\ m.queriedData.length > 0)
  IN IF Len(newMatches) > 0
     THEN [matches |-> SliceFromEnd(newMatches, historySize),
           messageEvents |-> prevValue.messageEvents]
     ELSE prevValue

\* A hook with the given historySize before its first batch.  received is
\* every message given to addMessages so far, batch the last batch given,
\* prevValue the value before it, calls the number of batches given, restores
\* the number of restore calls with a previous value.
NewItem(historySize) ==
  [historySize |-> historySize, value |-> restore, received |-> <<>>,
   batch |-> <<>>, prevValue |-> restore, calls |-> 0, restores |-> 0]

\* ---------------------------------------------------------------- actions

\* The objects a behaviour may be about.
Subjects ==
  {"RandomAccessPlayer", "RosbridgePlayer", "McapReader", "useMessageDataItem"}

Init ==
  /\ subject \in Subjects
  /\ item \in IF subject = "useMessageDataItem"
              THEN {NewItem(historySize) : historySize \in 0..MaxHistorySize}
              ELSE {NewItem(1)}
  /\ ros = NewRosbridge
  /\ mcap \in IF subject = "McapReader"
              THEN {McapCaller(s, ic) : s \in McapStreams, ic \in BOOLEAN}
              ELSE {NoMcap}
  /\ listener = FALSE
  /\ isPlaying = FALSE
  /\ speed = InitialSpeedTenths
  /\ start = 0
  /\ end = 0
  /\ nextReadStartTime = 0
  /\ lastSeekStartTime = 0
  /\ lastSeekEmitTime = 0
  /\ lastTickMillis = NoTime
  /\ lastRangeMillis = NoRange
  /\ cancelSeekBackfill = FALSE
  /\ parsedSubscribedTopics = {}
  /\ providerTopics = {}
  /\ initializing = TRUE
  /\ initialized = FALSE
  /\ reconnecting = FALSE
  /\ hasError = FALSE
  /\ closed = FALSE
  /\ messages = <<>>
  /\ currentTime = NoTime
  /\ problems = {}
  /\ readingMutex = FALSE
  /\ backfillMutex = FALSE
  /\ emitCalling = FALSE
  /\ emitPending = FALSE
  /\ tick = TickIdle
  /\ bf = BackfillIdle
  /\ bfOut = BackfillIdle
  /\ now = 0
  /\ perfNow = 0
  /\ provStart \in StartChoices
  /\ initCalls = 0
  /\ initPending = 0
  /\ providerCloses = 0
  /\ metricsCloses = 0
  /\ closeCalls = 0
  /\ requestCalls = 0
  /\ tickCalls = 0
  /\ controlCalls = 0
  /\ emitted = NoCall
  /\ hist = [errorOccurred |-> FALSE, closedListening |-> FALSE,
             lastPlayingTime |-> NoTime,
             seekSince |-> FALSE, want |-> NoWant, superseded |-> FALSE,
             calls |-> 0, raised |-> FALSE]

SetListener ==
  /\ initCalls < MaxSetListener
  /\ Commit(setListener(World))

\* provider.initialize settles in one of the given ways.
InitializeDone(outcomes) ==
  /\ initPending > 0
  /\ \E outcome \in outcomes :
       LET w == [World EXCEPT !.initPending = @ - 1]
       IN IF outcome = "reject"
          THEN Commit(setError(w))
          ELSE Commit(InitializeResolved(w, outcome))

\* The step of a call on the player, by its caller or by its provider, to
\* state w, for as long as no more than MaxControlCalls of them have changed
\* anything.
ControlStep(w) ==
  IF w = World THEN Commit(w)
  ELSE /\ controlCalls < MaxControlCalls
       /\ Commit([w EXCEPT !.controlCalls = @ + 1])

\* Step A of a caller whose calls that change anything are no more than
\* MaxFewCalls.
Few(A) == A /\ controlCalls' <= MaxFewCalls

StartPlayback ==
  /\ ControlStep(startPlayback(World))

PausePlayback ==
  /\ ControlStep(pausePlayback(World))

SetPlaybackSpeed ==
  /\ \E s \in SpeedChoices : ControlStep(setPlaybackSpeed(World, s))

\* seekPlayback with one of the given arguments.
SeekPlayback(inputs) ==
  /\ \E in \in inputs : ControlStep(seekPlayback(World, in[1], in[2]))

RequestBackfill ==
  /\ requestCalls < MaxBackfillRequests
  /\ ControlStep(requestBackfill([World EXCEPT !.requestCalls = @ + 1]))

\* setSubscriptions with one of the given sets of topics, by a caller that
\* subscribes before it uses the playback controls.
SetSubscriptions(choices) ==
  /\ controlCalls = 0
  /\ \E topics \in choices :
       /\ topics # parsedSubscribedTopics
       /\ Commit(setSubscriptions(World, topics))

Close ==
  /\ closeCalls < MaxCloses
  /\ ControlStep(close(World))

\* The provider calls the progress callback it was given by initialize.
ProviderProgress ==
  /\ initCalls > 0
  /\ ControlStep(progressCallback(World))

\* The provider reports that it is reconnecting, or that it no longer is.
ProviderReconnecting ==
  /\ initCalls > 0
  /\ \E b \in BOOLEAN : ControlStep(updateReconnecting(World, b))

\* The step of _read's loop to state w, for as long as _tick has computed
\* no more than MaxTicks windows.
TickStep(w) ==
  /\ w.tickCalls <= MaxTicks
  /\ Commit(w)

\* runExclusive calls the function that holds the loop of _read.
ReadLoopBegins ==
  /\ tick.phase = "locked"
  /\ \E tickTime \in {perfNow, TickTaken} :
       \E sinceLastTick \in TickDurations :
         TickStep(ReadLoop(World, tickTime, sinceLastTick))

\* The delay of _read has elapsed: the loop goes round.
TickLoop ==
  /\ tick.phase = "delay"
  /\ \E tickTime \in {perfNow, TickTaken} :
       \E sinceLastTick \in TickDurations :
         TickStep(ReadLoop(World, tickTime, sinceLastTick))

\* The provider.getMessages call of a tick settles in one of the given ways.
TickReadDone(outcomes) ==
  /\ tick.phase = "read"
  /\ \E outcome \in outcomes :
       IF outcome = "reject"
       THEN Commit(TickGotRejection(World))
       ELSE LET raw == ProviderResult(outcome, tick.start, tick.end,
                                      tick.topics)
                w == GetMessagesState(World, outcome, raw, tick.topics)
            IN Commit(TickGotMessages(
                 w, GetMessagesValue(World, outcome, raw, tick.topics)))

\* _tick resumes with the messages of its read, or _read catches the
\* rejection of the read.
TickResumes ==
  /\ tick.phase \in {"resolved", "rejected"}
  /\ IF tick.phase = "rejected"
     THEN Commit(ReadCatch(World))
     ELSE Commit(TickAfterRead(World))

\* _tick goes on after its second await.
TickContinues ==
  /\ tick.phase = "resumed"
  /\ Commit(TickCommit(World, tick.messages))

\* runExclusive calls the function that holds the read of a backfill.
BackfillBegins ==
  /\ bf.phase = "locked"
  /\ Commit(BackfillBegin(World))

\* The provider.getMessages call of a backfill settles in one of the given
\* ways.
BackfillReadDone(outcomes) ==
  /\ bf.phase = "read"
  /\ \E outcome \in outcomes :
       IF outcome = "reject"
       THEN Commit([World EXCEPT !.bf = [@ EXCEPT !.phase = "rejected"]])
       ELSE LET raw == ProviderResult(outcome, bf.start, bf.end, bf.topics)
                w == GetMessagesState(World, outcome, raw, bf.topics)
            IN Commit(BackfillGotMessages(
                 w, GetMessagesValue(World, outcome, raw, bf.topics)))

\* runExclusive releases the backfill mutex.  The activation that released
\* it before has resumed by then: its continuation has been pending since
\* this one's read had not begun.
BackfillReleases ==
  /\ bf.phase \in {"resolved", "rejected"}
  /\ bfOut.phase # "released"
  /\ Commit(BackfillRelease(World))

\* _seekPlaybackInternal resumes with the messages of its read, or ends
\* with the rejection of the read.
BackfillResumes ==
  /\ bfOut.phase = "released"
  /\ IF bfOut.rejected
     THEN Commit(BackfillRejected(World))
     ELSE Commit(BackfillAfterRead(World, bfOut.messages))

\* The promise of the call in flight settles (the listener's, or the
\* resolved one of a call made without a listener): debouncePromise starts
\* the pending call, and a tick awaiting the emission is to go on.
ListenerDone ==
  /\ emitCalling
  /\ Commit(TickEmitDone(DebounceFinish(World)))

SetParameter ==
  /\ Commit(setParameter(World))

Publish ==
  /\ Commit(publish(World))

\* setListener is called, by a caller that may call it again.
SetListenerAgain ==
  /\ initCalls < MaxListeners
  /\ Commit(setListener(World))

\* runExclusive releases the reading mutex after the loop has ended.
ReadingMutexRelease ==
  /\ tick.phase = "exit"
  /\ Commit(ReadRelease(World))

\* Wall-clock time passes.
AdvanceClock ==
  /\ now < MaxClock
  /\ Commit([World EXCEPT !.now = @ + 1])

\* ------------------------------------------------- RosbridgePlayer's steps

\* The step of a RosbridgePlayer to state r.
RosCommit(r) ==
  /\ subject = "RosbridgePlayer"
  /\ ros' = r
  /\ UNCHANGED <<randomAccessVars, subject, mcap, item>>

\* Step A of a player that closes its clients no more than MaxFewCloses
\* times and its metrics collector no more than that.
RosFew(A) ==
  /\ A
  /\ ros'.clientCloses <= MaxFewCloses
  /\ ros'.metricsCloses <= MaxFewCloses

RosSetListener ==
  /\ ~ros.listener
  /\ RosCommit(rosSetListener(ros))

RosSetSubscriptions ==
  /\ \E topics \in RosSubscriptionChoices :
       RosCommit(rosSetSubscriptions(ros, topics))

RosClose ==
  /\ ros.metricsCloses < MaxCloses
  /\ RosCommit(rosClose(ros))

\* The connection attempt succeeds.
RosConnected ==
  /\ ros.socket = "connecting"
  /\ RosCommit(rosOnConnection([ros EXCEPT !.socket = "open"]))

\* The connection reports an error.
RosSocketError ==
  /\ ros.socket \in {"connecting", "open"}
  /\ RosCommit(rosOnError(ros))

\* The connection attempt fails, or the connection is lost or has been
\* closed.
RosSocketClosed ==
  /\ ros.socket \in {"connecting", "open"}
  /\ ros.clientCloses < MaxClientCloses
  /\ RosCommit(rosOnClose([ros EXCEPT !.socket = "closed"]))

\* The timer set by the close handler fires: _open().
RosOpenTimer ==
  /\ ros.openTimer
  /\ RosCommit(rosOpen([ros EXCEPT !.openTimer = FALSE]))

\* getTopicsAndRawTypes resolves.
RosTopicsResolved ==
  /\ ros.request = "topics" /\ ros.socket = "open"
  /\ \E result \in RosTopicResults : RosCommit(rosTopicsResolved(ros, result))

\* getTopicsAndRawTypes resolves to the given result.
RosTopicsAnswer(result) ==
  /\ ros.request = "topics" /\ ros.socket = "open"
  /\ RosCommit(rosTopicsResolved(ros, result))

\* getTopicsAndRawTypes resolves to one of the given results.
RosTopicsAnswered(results) ==
  /\ \E result \in results : RosTopicsAnswer(result)

\* getTopicsAndRawTypes rejects.
RosTopicsRejected ==
  /\ ros.request = "topics"
  /\ RosCommit(rosTopicsRejected(ros))

\* _getSystemState settles in one of the given ways (TRUE: it resolves).
RosGraphSettled(outcomes) ==
  /\ ros.request = "graph"
  /\ \E ok \in outcomes : RosCommit(rosGraphSettled(ros, ok))

\* A stall timer fires: that of the call that is waiting, or one of those
\* of the calls that will never be answered.
RosStallTimer ==
  /\ ros.stallTimer \/ ros.orphanStalls > 0
  /\ \E own \in BOOLEAN :
       /\ IF own THEN ros.stallTimer ELSE ros.orphanStalls > 0
       /\ RosCommit(rosStallWarning(
            IF own THEN [ros EXCEPT !.stallTimer = FALSE]
            ELSE [ros EXCEPT !.orphanStalls = @ - 1]))

\* The timer set at the end of _requestTopics fires.
RosPollTimer ==
  /\ ros.requestTopicsTimeout
  /\ RosCommit(rosRequestTopics(
       [ros EXCEPT !.requestTopicsTimeout = FALSE], FALSE))

\* The timer set by _emitState fires.
RosEmitTimer ==
  /\ ros.emitTimer
  /\ RosCommit(rosEmitState([ros EXCEPT !.emitTimer = FALSE]))

\* A message of one of the given kinds arrives on a subscribed topic.
RosMessage(kinds) ==
  /\ ros.socket = "open"
  /\ \E topic \in ros.topicSubscriptions, kind \in kinds,
        clock \in RosClockValues :
       /\ kind = "ok" => Len(ros.parsedMessages) < MaxRosQueue
       /\ RosCommit(rosOnMessage(ros, topic, kind, clock))

\* The promise of the call in flight settles: the listener's, or the
\* resolved one of a call made without a listener or after close().
RosListenerDone ==
  /\ ros.emitCalling
  /\ RosCommit(rosDebounceFinish(ros))

\* Wall-clock time passes.
RosAdvanceClock ==
  /\ ros.now < MaxClock
  /\ RosCommit([ros EXCEPT !.now = @ + 1])

\* setParameter is called.
RosSetParameter ==
  /\ RosCommit(rosSetParameter(ros))

\* publish is called for a topic.
RosPublish ==
  /\ RosCommit(rosPublish(ros, "a"))

\* setPublishers is called.
RosSetPublishers ==
  /\ \E topics \in {{"a"}} : RosCommit(rosSetPublishers(ros, topics))

\* ------------------------------------------------------ McapReader's steps

\* The caller appends the next bytes of its stream, at most MaxFragment of
\* them.  append throws when the reader is done.
McapAppend ==
  /\ subject = "McapReader"
  /\ mcap.rest # <<>>
  /\ \E k \in 1..MaxFragment :
       /\ k <= Len(mcap.rest)
       /\ mcap' =
            IF mcap.reader.doneReading
            THEN [mcap EXCEPT !.appendThrew = TRUE]
            ELSE [mcap EXCEPT
                    !.reader = readerAppend(@, SubSeq(mcap.rest, 1, k)),
                    !.rest = SubSeq(@, k + 1, Len(@)),
                    !.last = "none",
                    !.bytewise = @ /\ k = 1]
  /\ UNCHANGED <<randomAccessVars, subject, ros, item>>

\* The caller calls nextRecord().
McapNextRecord ==
  /\ subject = "McapReader"
  /\ mcap' = AfterNextRecord(mcap, nextRecord(mcap.reader))
  /\ UNCHANGED <<randomAccessVars, subject, ros, item>>

\* ---------------------------------------------- useMessageDataItem's steps

\* The batches of n messages that may arrive after the messages received.
Batches(n) ==
  IF n = 0
  THEN {<<>>}
  ELSE {[i \in 1..n |-> [id |-> Len(item.received) + i, queriedData |-> q[i]]] :
          q \in [1..n -> QueriedData]}

\* The message pipeline gives the reducer the next batch.
AddMessages ==
  /\ subject = "useMessageDataItem"
  /\ item.calls < MaxBatches
  /\ \E n \in 0..MaxBatch : \E messageEvents \in Batches(n) :
       item' = [item EXCEPT
                  !.value = addMessages(@, messageEvents, item.historySize),
                  !.received = @ \o messageEvents,
                  !.batch = messageEvents,
                  !.prevValue = item.value,
                  !.calls = @ + 1]
  /\ UNCHANGED <<randomAccessVars, subject, ros, mcap>>

\* The previous batch as the path gives its messages now: q[i] is the queried
\* data of the i-th message.
Requeried(messageEvents, q) ==
  [i \in 1..Len(messageEvents) |->
     [id |-> messageEvents[i].id, queriedData |-> q[i]]]

\* The path or the cached getter changed: the message pipeline gives the
\* reducer its value to restore.
Restore ==
  /\ subject = "useMessageDataItem"
  /\ item.calls > 0
  /\ item.restores < MaxRestores
  /\ \E q \in [1..Len(item.value.messageEvents) -> QueriedData] :
       item' = [item EXCEPT
                  !.value = restorePrevValue(
                              [@ EXCEPT !.messageEvents = Requeried(@, q)],
                              item.historySize),
                  !.restores = @ + 1]
  /\ UNCHANGED <<randomAccessVars, subject, ros, mcap>>

\* ---------------------------------------------------------- specifications

\* Playback: a provider that answers every call, and a caller that plays,
\* pauses, seeks and subscribes in any order, with no more than MaxFewCalls
\* calls that change anything.
Next ==
  \/ SetListener
  \/ InitializeDone({"ok"})
  \/ Few(StartPlayback)
  \/ Few(PausePlayback)
  \/ Few(SeekPlayback(SeekInputs))
  \/ SetSubscriptions(SubscriptionChoices)
  \/ Few(ProviderProgress)
  \/ ReadLoopBegins
  \/ TickLoop
  \/ TickResumes
  \/ TickContinues
  \/ ReadingMutexRelease
  \/ TickReadDone({"ok"})
  \/ BackfillBegins
  \/ BackfillReadDone({"ok"})
  \/ BackfillReleases
  \/ BackfillResumes
  \/ ListenerDone

Spec == Init /\ [][Next]_vars

\* Lifecycle: the provider may fail, and the caller may close the player
\* (no more than MaxFewCalls calls that change anything).
NextLifecycle ==
  \/ SetListener
  \/ InitializeDone(InitOutcomes)
  \/ Few(StartPlayback)
  \/ Few(PausePlayback)
  \/ Few(SeekPlayback(LifecycleSeekInputs))
  \/ SetSubscriptions(SubscriptionChoices)
  \/ Few(Close)
  \/ ReadLoopBegins
  \/ TickLoop
  \/ TickResumes
  \/ TickContinues
  \/ ReadingMutexRelease
  \/ TickReadDone(LifecycleReadOutcomes)
  \/ BackfillBegins
  \/ BackfillReadDone(LifecycleReadOutcomes)
  \/ BackfillReleases
  \/ BackfillResumes
  \/ ListenerDone

SpecLifecycle == Init /\ [][NextLifecycle]_vars

\* The player under every control operation, with a provider that may fail
\* and without close() (no more than MaxFewCalls calls that change
\* anything).
NextControls ==
  \/ SetListener
  \/ InitializeDone(InitOutcomes)
  \/ Few(StartPlayback)
  \/ Few(PausePlayback)
  \/ Few(SetPlaybackSpeed)
  \/ Few(SeekPlayback(LifecycleSeekInputs))
  \/ Few(RequestBackfill)
  \/ SetSubscriptions(SubscriptionChoices)
  \/ ReadLoopBegins
  \/ TickLoop
  \/ TickResumes
  \/ TickContinues
  \/ ReadingMutexRelease
  \/ TickReadDone(LifecycleReadOutcomes)
  \/ BackfillBegins
  \/ BackfillReadDone(LifecycleReadOutcomes)
  \/ BackfillReleases
  \/ BackfillResumes
  \/ ListenerDone

SpecControls == Init /\ [][NextControls]_vars

\* Playback from a provider whose results are odd: initialize() may report
\* the wrong message format, a read may come without parsedMessages or with
\* a message on a topic that was not asked for, and one of the subscribed
\* topics has no datatype.
NextOddReads ==
  \/ SetListener
  \/ InitializeDone({"ok", "noParsed", "raw"})
  \/ StartPlayback
  \/ PausePlayback
  \/ SetSubscriptions(OddSubscriptionChoices)
  \/ ReadLoopBegins
  \/ TickLoop
  \/ TickResumes
  \/ TickContinues
  \/ ReadingMutexRelease
  \/ TickReadDone(OddReadOutcomes)
  \/ BackfillBegins
  \/ BackfillReadDone(OddReadOutcomes)
  \/ BackfillReleases
  \/ BackfillResumes
  \/ ListenerDone

SpecOddReads == Init /\ [][NextOddReads]_vars

\* A RosbridgePlayer with a server that may drop the connection, answers
\* the topic requests, and sends messages.
NextRos ==
  \/ RosSetListener
  \/ RosSetSubscriptions
  \/ RosConnected
  \/ RosSocketClosed
  \/ RosOpenTimer
  \/ RosTopicsResolved
  \/ RosGraphSettled({TRUE})
  \/ RosPollTimer
  \/ RosEmitTimer
  \/ RosMessage({"ok"})
  \/ RosListenerDone
  \/ RosAdvanceClock

SpecRos == Init /\ [][NextRos]_vars

\* A RosbridgePlayer with a connection that stays up and messages that may
\* fail to be read.
NextRosMessages ==
  \/ RosSetListener
  \/ RosSetSubscriptions
  \/ RosConnected
  \/ RosTopicsResolved
  \/ RosGraphSettled({TRUE})
  \/ RosEmitTimer
  \/ RosMessage(RosMessageKinds)
  \/ RosListenerDone

SpecRosMessages == Init /\ [][NextRosMessages]_vars

\* A RosbridgePlayer with a connection and topic requests that may fail,
\* without subscriptions.
NextRosFaults ==
  \/ RosSetListener
  \/ RosClose
  \/ RosConnected
  \/ RosSocketError
  \/ RosSocketClosed
  \/ RosOpenTimer
  \/ RosTopicsResolved
  \/ RosTopicsRejected
  \/ RosGraphSettled({TRUE})
  \/ RosStallTimer
  \/ RosPollTimer
  \/ RosEmitTimer
  \/ RosListenerDone

\* Either engine under its control operations, with a provider or a server
\* that may fail.
NextEngines ==
  \/ NextControls
  \/ NextRosFaults

SpecEngines == Init /\ [][NextEngines]_vars

\* Either engine under every operation and every event that reaches its
\* listener: the caller's controls and close(), the provider's callbacks and
\* failures, and the server's messages, errors and lost connections.
NextEvents ==
  \/ SetListener
  \/ InitializeDone(InitOutcomes)
  \/ Few(StartPlayback)
  \/ Few(PausePlayback)
  \/ Few(SetPlaybackSpeed)
  \/ Few(SeekPlayback(LifecycleSeekInputs))
  \/ Few(RequestBackfill)
  \/ SetSubscriptions(SubscriptionChoices)
  \/ Few(Close)
  \/ Few(ProviderProgress)
  \/ Few(ProviderReconnecting)
  \/ ReadLoopBegins
  \/ TickLoop
  \/ TickResumes
  \/ TickContinues
  \/ ReadingMutexRelease
  \/ TickReadDone(LifecycleReadOutcomes)
  \/ BackfillBegins
  \/ BackfillReadDone(LifecycleReadOutcomes)
  \/ BackfillReleases
  \/ BackfillResumes
  \/ ListenerDone
  \/ RosSetListener
  \/ RosSetSubscriptions
  \/ RosFew(RosClose)
  \/ RosConnected
  \/ RosSocketError
  \/ RosFew(RosSocketClosed)
  \/ RosOpenTimer
  \/ RosTopicsResolved
  \/ RosTopicsRejected
  \/ RosGraphSettled({TRUE})
  \/ RosStallTimer
  \/ RosPollTimer
  \/ RosEmitTimer
  \/ RosMessage({"ok"})
  \/ RosListenerDone

SpecEvents == Init /\ [][NextEvents]_vars

\* Either engine with the operations for parameters and publishing.
NextContract ==
  \/ SetListener
  \/ InitializeDone({"ok"})
  \/ BackfillBegins
  \/ BackfillReleases
  \/ BackfillResumes
  \/ ListenerDone
  \/ SetParameter
  \/ Publish
  \/ RosSetListener
  \/ RosConnected
  \/ RosTopicsResolved
  \/ RosGraphSettled({TRUE})
  \/ RosListenerDone
  \/ RosSetPublishers
  \/ RosSetParameter
  \/ RosPublish

SpecContract == Init /\ [][NextContract]_vars

\* A McapReader fed a stream in fragments by a caller that calls nextRecord
\* whenever it likes.
NextMcap ==
  \/ McapAppend
  \/ McapNextRecord

SpecMcap == Init /\ [][NextMcap]_vars

\* ------------------------------------------------------------- properties

\* A listener call is in flight: debouncePromise has made a call that
\* reached the listener, and the listener's promise is pending.
ListenerCalled == emitCalling /\ emitted # NoCall

\* A listener call of the RosbridgePlayer is in flight.
RosListenerCalled == ros.emitCalling /\ ros.emitted # NoRosCall

\* The state a listener call in flight has been given.
Shown == emitted.state

\* A listener call is in flight and its state has activeData.
ShowsData == ListenerCalled /\ Shown.active

\* What a backfill over the window a seek asked for delivers.
WantedMessages(want) ==
  ProviderGetMessages(want.from, want.target, want.topics)

\* The phases of a tick between the call of _getMessages and the end of
\* _tick.
TickUnderWay == {"read", "resolved", "emitWait", "resumed"}

\* C1: at no time are two provider.getMessages calls in flight: the read of
\* a tick and the read of a backfill never overlap.
C1_OneReadInFlight == ~(tick.phase = "read" /\ bf.phase = "read")

\* C2: a seekPlayback called while the read of a tick is in flight changes
\* _lastSeekStartTime, and when that tick ends it leaves _nextReadStartTime
\* as it is.
C2_SeekDiscardsTick ==
  [][/\ (tick.phase = "read" /\ ~tick.seekedInRead /\ tick'.seekedInRead)
          => lastSeekStartTime' # lastSeekStartTime
     /\ (/\ tick.seekedInRead
         /\ tick.phase \in TickUnderWay
         /\ tick'.phase \notin TickUnderWay)
          => nextReadStartTime' = nextReadStartTime]_vars

\* C3: when seekPlayback has been called, paused, during the backfill read
\* of an earlier seek, the state emitted for it carries the messages of the
\* window the later seek asked for, never those of the earlier read.
C3_LatestBackfillOnly ==
  (ListenerCalled /\ emitted.superseded)
    => Shown.messages = WantedMessages(emitted.want)

\* C4: the first state emitted after a seekPlayback(t) made while paused has
\* completed has its currentTime between t minus the backfill window and t,
\* and has messages when the provider holds any in that window.
C4_SeekLands ==
  (ListenerCalled /\ emitted.want # NoWant)
    => /\ emitted.want.from <= Shown.currentTime
       /\ Shown.currentTime <= emitted.want.target
       /\ WantedMessages(emitted.want) # <<>> => Shown.messages # <<>>

\* Two consecutive states both report playback: the state shown now and the
\* one before it.
ConsecutivePlaying == ListenerCalled /\ emitted.trend # "none"

\* C5, read with a seek in mind: a state that reports playback never has a
\* currentTime beyond the end, and its currentTime is not below that of the
\* state emitted before it, if that one reported playback too and
\* seekPlayback was not called between the two emissions.
C5_MonotoneBetweenSeeks ==
  /\ (ShowsData /\ Shown.isPlaying) => Shown.currentTime <= Shown.endTime
  /\ (ConsecutivePlaying /\ ~emitted.afterSeek) => emitted.trend # "down"

\* C6: every emitted state with activeData has its currentTime between the
\* start and the end, both included.
C6_CurrentTimeInRange ==
  ShowsData => /\ Shown.startTime <= Shown.currentTime
               /\ Shown.currentTime <= Shown.endTime

\* A state is shown whose currentTime is the start because the time before
\* _nextReadStartTime lies before the start.
C6_ClampedToStart ==
  /\ ShowsData /\ Shown.currentTime = Shown.startTime
  /\ nextReadStartTime = start /\ currentTime = start

\* C7: the provider and the metrics collector are each closed at most once,
\* however often close() is called and whether or not a fatal fault occurs
\* before or after it.
C7_ClosedAtMostOnce == providerCloses <= 1 /\ metricsCloses <= 1

\* C8: no call of the listener is made once close() has returned.
C8_SilentAfterClose == ~(ListenerCalled /\ emitted.closed)

\* C9: every state emitted after a fatal fault has presence ERROR and no
\* activeData.
C9_ErrorIsAbsorbing ==
  (ListenerCalled /\ emitted.afterError)
    => Shown.presence = "ERROR" /\ ~Shown.active

\* An ERROR state is shown after a read of an initialized player has failed
\* and startPlayback has been called since.
C9_ErrorShownAfterStart ==
  /\ ListenerCalled /\ emitted.afterError /\ Shown.presence = "ERROR"
  /\ initialized /\ isPlaying

\* One of the public operations of playback control.
PublicOperation ==
  \/ StartPlayback
  \/ PausePlayback
  \/ SeekPlayback(LifecycleSeekInputs)
  \/ RequestBackfill
  \/ SetPlaybackSpeed

\* This step issues a provider.getMessages call, or takes the reading or
\* the backfill mutex for one.
IssuesRead ==
  \/ tick.phase # "read" /\ tick'.phase = "read"
  \/ bf.phase # "read" /\ bf'.phase = "read"
  \/ tick.phase # "locked" /\ tick'.phase = "locked"
  \/ bf.phase # "locked" /\ bf'.phase = "locked"

\* C10: after a fatal fault a public operation changes none of _isPlaying,
\* _nextReadStartTime and _speed and issues no provider.getMessages call.
C10_NoOpAfterError ==
  [][(hasError /\ PublicOperation)
       => /\ isPlaying' = isPlaying
          /\ nextReadStartTime' = nextReadStartTime
          /\ speed' = speed
          /\ ~IssuesRead]_vars

\* ------------------------------------------------- McapReader: properties

\* a is b or the beginning of b.
IsPrefix(a, b) == Len(a) <= Len(b) /\ SubSeq(b, 1, Len(a)) = a

\* The records nextRecord returns, call after call, until it returns none.
RECURSIVE Drain(_)
Drain(r) ==
  LET res == nextRecord(r)
  IN IF res.threw \/ res.value = Undefined THEN <<>>
     ELSE <<res.value>> \o Drain(res.reader)

\* The records of a stream that is appended at once.
WholeStreamRecords(bytes, includeChunks) ==
  Drain(readerAppend(NewReader(includeChunks), bytes))

\* The kinds of the records of a sequence.
Types(records) == [i \in 1..Len(records) |-> records[i].type]

\* The caller has appended all its bytes and has called nextRecord since
\* until it returned no record.
FedAndDrained == mcap.rest = <<>> /\ mcap.last \in {"more", "done", "throw"}

\* The records returned for a valid stream fed in fragments are those of the
\* stream appended at once, in order, and all of them in the end.
FragmentsAgree ==
  mcap.stream.kind = "valid"
    => LET whole == WholeStreamRecords(mcap.stream.bytes,
                                       mcap.reader.includeChunks)
       IN /\ IsPrefix(mcap.out, whole)
          /\ ~mcap.threw
          /\ FedAndDrained => mcap.reader.doneReading /\ mcap.out = whole

\* C16 as amended: the records returned for a valid stream are the same
\* however it is split into fragments, and a nextRecord call that finds no
\* whole magic or record at the point where the read is suspended takes no
\* bytes from the buffer.
C16_FragmentsAgree == FragmentsAgree /\ ~mcap.stallConsumed

\* C16 as stated: the records returned for a valid stream are the same
\* however it is split into fragments, and no nextRecord call that asks for
\* more bytes has taken bytes from the buffer.
C16_NeedMoreTakesNothing == FragmentsAgree /\ ~mcap.moreConsumed

\* A valid stream with a chunk has been fed to the end in fragments of one
\* byte, with calls that asked for more bytes on the way.
C16_FedBytewise ==
  /\ mcap.stream.bytes = ChunkStream /\ mcap.bytewise
  /\ mcap.reader.doneReading /\ Len(mcap.out) >= 5

\* C17: a wrong leading magic, bytes left after the trailing magic, and a
\* Chunk, IndexData, ChunkInfo or Footer record inside a chunk each make a
\* nextRecord call throw, and no later call returns a record.
C17_MalformedIsFatal ==
  /\ ~mcap.lateRecord
  /\ (mcap.stream.kind \in {"badMagic", "trailing", "nested"} /\ FedAndDrained)
       => mcap.threw

\* A nextRecord call has thrown for the byte after the trailing magic, and a
\* later call has returned nothing.
C17_TrailingByteThrown ==
  /\ mcap.stream.kind = "trailing" /\ mcap.threw /\ mcap.last = "done"
  /\ Types(mcap.out) = <<"ChannelInfo", "Message">>

\* The example stream fed in fragments of one byte yields records of these
\* kinds and no others, without a failure, and is done at its end.
ExampleYields(types) ==
  (mcap.stream.bytes = ExampleStream /\ mcap.bytewise)
    => /\ IsPrefix(Types(mcap.out), types)
       /\ ~mcap.threw /\ ~mcap.appendThrew
       /\ FedAndDrained => mcap.reader.doneReading /\ Types(mcap.out) = types

\* C18 as amended: [magic][channel-info][message][footer][magic] fed one
\* byte at a time yields ChannelInfo, Message and the Footer, and then the
\* reader is done, without a failure.
C18_ExampleWithFooter == ExampleYields(<<"ChannelInfo", "Message", "Footer">>)

\* C18 as stated: [magic][channel-info][message][footer][magic] fed one byte
\* at a time yields ChannelInfo and Message and no other record, and then
\* the reader is done, without a failure.
C18_ExampleTwoRecords == ExampleYields(<<"ChannelInfo", "Message">>)

\* The example stream has been fed one byte at a time to its end.
C18_ExampleDone ==
  /\ mcap.stream.bytes = ExampleStream /\ mcap.bytewise
  /\ mcap.reader.doneReading /\ mcap.rest = <<>>

\* ------------------------------------------------ both engines: properties

\* C11: no operation of either engine has thrown.
C11_NothingRaised == ~hist.raised /\ ~ros.hist.raised

\* C12: at no time is more than one listener call in flight, in either
\* engine.
C12_OneCallInFlight == hist.calls <= 1 /\ ros.hist.calls <= 1

\* A listener call is in flight and another emission is waiting for it, in
\* a RandomAccessPlayer that has failed.
C12_EmissionWaits ==
  ListenerCalled /\ emitPending /\ hasError /\ hist.calls = 1

\* A step keeps the queued messages: the queue is as it was or has grown at
\* its end.
QueueKept == IsPrefix(messages, messages')

\* A step delivers the queued messages: a listener call starts, and the state
\* it is given begins with the messages that were queued.
QueueDelivered ==
  /\ emitCalling'
  /\ ~emitCalling \/ emitPending
  /\ IsPrefix(messages, emitted'.state.messages)

\* A step that starts a listener call with messages leaves none of them in
\* the queue.
QueueHandedOver ==
  (emitCalling' /\ emitted' # emitted /\ emitted'.state.messages # <<>>)
    => messages' = <<>>

\* A round of the loop of _seekPlaybackInternal begins and empties the
\* queue (line 1189): runExclusive takes the backfill mutex, or begins to
\* wait for it.
EmptiedForBackfill ==
  /\ \/ ~backfillMutex /\ backfillMutex'
     \/ bfOut.phase # "waiting" /\ bfOut'.phase = "waiting"
  /\ messages' = <<>>

\* _seekPlaybackInternal resumes with the messages of its backfill and
\* emits them (lines 1224-1231): they replace the queue, and are given to
\* the listener at once or wait for the call in flight to end.
ReplacedByBackfill ==
  /\ bfOut.phase = "released" /\ ~bfOut.rejected
  /\ bfOut'.phase = "idle"
  /\ nextReadStartTime = bfOut.readStartTime /\ ~cancelSeekBackfill
  /\ \/ messages' = bfOut.messages
     \/ /\ messages' = <<>>
        /\ ~emitCalling /\ ListenerCalled'
        /\ emitted'.state.messages = bfOut.messages

\* C13 as stated: every step keeps the queued messages or delivers them to
\* the listener; no step removes a queued message undelivered.
C13_NeverDiscarded == [][QueueKept \/ QueueDelivered]_vars

\* C13: every step keeps the queued messages or delivers them to the
\* listener, except the two steps of a seek's backfill that discard them:
\* the one that begins a round of _seekPlaybackInternal empties the queue,
\* and the one that emits the backfill replaces the queue with the
\* backfill's messages; and messages handed to the listener are not left in
\* the queue.
C13_DiscardedBySeekOnly ==
  [][/\ \/ QueueKept
        \/ QueueDelivered
        \/ EmptiedForBackfill
        \/ ReplacedByBackfill
     /\ QueueHandedOver]_vars

\* Messages read by a tick are queued behind a listener call in flight
\* (_cancelSeekBackfill is set: messages have been delivered since the last
\* backfill began, so the queue is not a backfill's).
C13_QueuedBehindCall ==
  /\ messages # <<>>
  /\ ListenerCalled
  /\ emitPending
  /\ cancelSeekBackfill

\* C14: a tick whose read has completed is never held back by a listener
\* call in flight: it commits (moves _nextReadStartTime, queues its
\* messages) without waiting for the call to finish.
C14_TickNeverWaitsForListener == ~(tick.phase = "emitWait" /\ ListenerCalled)

\* Nothing is left to happen in a RandomAccessPlayer but the end of the
\* listener call in flight: no emission is pending, initialize() has
\* settled, no backfill is being read, and the tick loop has ended or is
\* past the end of the data.
Settled ==
  /\ listener
  /\ ListenerCalled
  /\ ~emitPending
  /\ initPending = 0
  /\ bf.phase = "idle" /\ bfOut.phase = "idle"
  /\ \/ tick.phase = "idle"
     \/ tick.phase = "delay" /\ isPlaying /\ nextReadStartTime > end

\* The state given to the listener reflects the operations made so far: it
\* reports playback exactly when the player is playing, its activeData has
\* the player's speed, and no seek made while paused is still to be
\* reported.  (A state without activeData reports no playback.)
Reflected ==
  /\ Shown.isPlaying = isPlaying
  /\ Shown.active => Shown.speed = speed
  /\ hist.want = NoWant

\* C15: when nothing is left to happen but the end of the listener call in
\* flight, the state that call was given reflects the operations made on
\* the player: no operation stays without a snapshot that reflects it.
C15_LastSnapshotReflects == Settled => Reflected

\* The state a RosbridgePlayer's listener call in flight has been given.
RosShown == ros.emitted.state

\* A RosbridgePlayer's listener call is in flight and its state has
\* activeData.
RosShowsData == RosListenerCalled /\ RosShown.active

\* C19: a RosbridgePlayer emits a state with presence RECONNECTING only
\* when its presence has been PRESENT before: Reconnecting is entered from
\* Present, never from Initializing.
C19_ReconnectingFromPresent ==
  (RosListenerCalled /\ RosShown.presence = "RECONNECTING")
    => ros.emitted.wasPresent

\* C20: every state a RosbridgePlayer emits with activeData has its
\* currentTime between its startTime and its endTime.
C20_RosCurrentTimeInRange ==
  RosShowsData => /\ RosShown.startTime <= RosShown.currentTime
                  /\ RosShown.currentTime <= RosShown.endTime

\* ----------------------------------------- RosbridgePlayer: subscriptions

\* The topics a RosbridgePlayer is to be subscribed to: those requested and
\* /clock, as far as the server has them.
RosWantedSubscriptions ==
  (ros.requested \cup {"/clock"}) \cap ros.providerTopics

\* A RosbridgePlayer in use is connected and its last topic request has
\* resolved:
\* no request is under way, the next one is scheduled, and the last one has
\* not failed.
RosRefreshed ==
  /\ ~ros.closed
  /\ ros.rosClient
  /\ ros.topicsKnown
  /\ ros.request = "idle"
  /\ ros.requestTopicsTimeout
  /\ "requestTopics:error" \notin ros.problems

\* C21: a RosbridgePlayer without a connection has no subscriptions, and one
\* that is connected and has refreshed its topics is subscribed to exactly
\* the requested topics that are available.
C21_SubscriptionsRebuilt ==
  /\ ~ros.rosClient => ros.topicSubscriptions = {}
  /\ RosRefreshed => ros.topicSubscriptions = RosWantedSubscriptions

\* ------------------------------------------- RosbridgePlayer: reconnection

\* C22: a RosbridgePlayer that has not been closed is never RECONNECTING
\* without a retry: the timer for the next attempt is set or the attempt is
\* under way; and while the server has accepted its connection it is
\* PRESENT.
C22_RetryPending ==
  ~ros.closed
    => /\ ros.presence = "RECONNECTING"
            => ros.openTimer \/ ros.socket = "connecting"
       /\ ros.socket = "open" => ros.presence = "PRESENT"

\* A RosbridgePlayer that has lost its connection is making a new attempt.
C22_Retrying ==
  /\ ~ros.closed
  /\ ros.hist.wasPresent
  /\ ros.presence = "RECONNECTING"
  /\ ros.socket = "connecting"

\* ------------------------------------ RandomAccessPlayer: provider results

\* After the step the player has failed and the listener is given the ERROR
\* state, at once or when the call in flight is done.
FatalAfter ==
  /\ hasError'
  /\ emitCalling'
  /\ emitPending' \/ emitted'.state.presence = "ERROR"

\* provider.initialize() resolves without providesParsedMessages or with raw
\* message definitions.
WrongFormatInitialized == InitializeDone({"noParsed", "raw"})

\* A provider.getMessages() call resolves without parsedMessages.
ReadWithoutParsedMessages ==
  \/ TickReadDone({"bad"})
  \/ BackfillReadDone({"bad"})

\* C23: an initialize result of the wrong format and a read without
\* parsedMessages each put the player in Error.
C23_FormatFaultsFatal ==
  [][(WrongFormatInitialized \/ ReadWithoutParsedMessages) => FatalAfter]_vars

\* The topics the provider lists with a datatype.
TopicsWithDatatype == {p.name : p \in {q \in ProviderTopicList : q.datatype # ""}}

\* Every message of a sequence is on a topic with a datatype.
AllWithDatatype(msgs) ==
  \A i \in 1..Len(msgs) : msgs[i].topic \in TopicsWithDatatype

\* a is b or the end of b.
IsSuffix(a, b) ==
  Len(a) <= Len(b) /\ SubSeq(b, Len(b) - Len(a) + 1, Len(b)) = a

\* The messages of a tick's window that are to be delivered: those on the
\* topics asked for that have a datatype, in time order.
TickDeliverable ==
  ProviderGetMessages(tick.start, tick.end, tick.topics \cap TopicsWithDatatype)

\* The read of a tick resolves with parsedMessages.
TickReadResolved == TickReadDone({"ok", "stray"})

\* A read resolves with a message on a topic that was not asked for.
StrayRead ==
  \/ TickReadDone({"stray"})
  \/ BackfillReadDone({"stray"})

\* The read of a tick resolves with the message on the topic without a
\* datatype.
TickReadWithoutDatatype ==
  /\ TickReadResolved
  /\ \E m \in ProviderMessages :
       /\ m.topic \in tick.topics \ TopicsWithDatatype
       /\ tick.start <= m.receiveTime
       /\ m.receiveTime <= tick.end

\* The problem recorded for a message that is dropped.
WarnProblem(topic) == [key |-> topic, severity |-> "warn"]

\* C24: a message on a topic that was not asked for, or on a topic without
\* a datatype, is recorded as a problem of severity warn keyed by its topic
\* and is never queued or delivered; the other messages of the read are
\* kept in order and given to the listener unless the player has failed,
\* the tick moves _nextReadStartTime past its window, and the read does not
\* make the player fail.
C24_OddMessagesDropped ==
  [][/\ AllWithDatatype(messages')
     /\ AllWithDatatype(tick'.messages)
     /\ AllWithDatatype(emitted'.state.messages)
     /\ StrayRead => WarnProblem("b") \in problems' /\ hasError' = hasError
     /\ TickReadWithoutDatatype
          => WarnProblem("e") \in problems' /\ hasError' = hasError
     /\ TickReadResolved => tick'.messages = TickDeliverable
     /\ TickContinues
          => /\ nextReadStartTime' = tick.end + 1
             /\ (isPlaying /\ ~hasError)
                  => IF emitCalling
                     THEN IsSuffix(tick.messages, messages')
                     ELSE IsSuffix(tick.messages, emitted'.state.messages)
    ]_vars

\* The listener is given a PRESENT state with a message and with the
\* problems of the two topics whose messages were dropped.
C24_DroppedAndDelivered ==
  /\ ListenerCalled
  /\ Shown.presence = "PRESENT"
  /\ Shown.messages # <<>>
  /\ {WarnProblem("b"), WarnProblem("e")} \subseteq Shown.problems

\* ---------------------------------------------- RosbridgePlayer: messages

\* A message on the topic arrives and cannot be read.
RosFailedOn(topic) ==
  /\ ros.socket = "open"
  /\ topic \in ros.topicSubscriptions
  /\ \E kind \in {"short", "bad"}, clock \in RosClockValues :
       ros' = rosOnMessage(ros, topic, kind, clock)

\* A message on the topic arrives and is read.
RosDecodedOn(topic) ==
  /\ ros.socket = "open"
  /\ topic \in ros.topicSubscriptions
  /\ \E clock \in RosClockValues : ros' = rosOnMessage(ros, topic, "ok", clock)

\* A step of a RosbridgePlayer leaves the queued messages in the queue or
\* hands them to the listener.
RosQueueKept ==
  \/ ros'.parsedMessages = ros.parsedMessages
  \/ /\ ros'.parsedMessages = <<>>
     /\ ros'.emitCalling
     /\ ros'.emitted.state.messages = ros.parsedMessages

\* The problem keys of the messages of the topics other than the given one.
RosOtherProblems(probs, topic) ==
  probs \ {IF topic = "/clock" THEN "message:/clock" ELSE "message:a"}

\* C25: a message on a topic that cannot be read sets the problem of that
\* topic and nothing else: the other problems and the queued messages stay;
\* a message on the topic that is read removes the topic's problem and no
\* other.
C25_DecodeFailureIsLocal ==
  [][\A topic \in RosServerTopics :
       /\ RosFailedOn(topic)
            => /\ ros'.problems \ ros.problems \subseteq {MessageProblem(topic)}
               /\ MessageProblem(topic) \in ros'.problems
               /\ RosOtherProblems(ros'.problems, topic)
                    = RosOtherProblems(ros.problems, topic)
               /\ RosQueueKept
       /\ RosDecodedOn(topic)
            => /\ MessageProblem(topic) \notin ros'.problems
               /\ RosOtherProblems(ros'.problems, topic)
                    = RosOtherProblems(ros.problems, topic)]_vars

\* A message is queued behind a listener call while the other topic has a
\* problem.
C25_ProblemBesideQueue ==
  /\ ros.parsedMessages # <<>>
  /\ ros.parsedMessages[1].topic = "a"
  /\ "message:/clock" \in ros.problems
  /\ "message:a" \notin ros.problems

\* ------------------------------------------ RosbridgePlayer: stalled query

\* C26: the problem topicsAndRawTypesTimeout is there only while a
\* getTopicsAndRawTypes call is waiting for its answer.
C26_StallProblemWhileWaiting ==
  "topicsAndRawTypesTimeout" \in ros.problems => ros.request = "topics"

\* --------------------------------------------------- activeData by presence

\* A state has activeData when its presence is PRESENT, and none when its
\* presence is INITIALIZING or ERROR.
ActiveDataByPresence(state) ==
  /\ state.presence = "PRESENT" => state.active
  /\ state.presence \in {"INITIALIZING", "ERROR"} => ~state.active

\* C27: every state either engine gives its listener has activeData when
\* its presence is PRESENT and none when its presence is INITIALIZING or
\* ERROR; a RECONNECTING state of a player that has had activeData has it
\* still.
C27_ActiveDataByPresence ==
  /\ ListenerCalled => ActiveDataByPresence(Shown)
  /\ (ListenerCalled /\ Shown.presence = "RECONNECTING" /\ ~initializing)
       => Shown.active
  /\ RosListenerCalled => ActiveDataByPresence(RosShown)
  /\ (/\ RosListenerCalled
      /\ RosShown.presence = "RECONNECTING"
      /\ ros.topicsKnown)
       => RosShown.active

\* ------------------------------------------------- useMessageDataItem

\* The reducer under batches of every shape.
NextItem ==
  \/ AddMessages

SpecItem == Init /\ [][NextItem]_vars

\* The messages of a sequence that match the path.
Matching(messageEvents) ==
  SelectSeq(messageEvents,
            LAMBDA m : m.queriedData.defined /\ m.queriedData.length > 0)

\* The last n elements of a sequence, all of it if it has fewer.
LastN(seq, n) ==
  IF n >= Len(seq) THEN seq ELSE SubSeq(seq, Len(seq) - n + 1, Len(seq))

\* The message events of a list of matches.
MatchedEvents(matches) == [i \in 1..Len(matches) |-> matches[i].messageEvent]

\* C28: after any batches, the matches are the last historySize matching
\* messages of all the batches so far in their order of arrival, never more
\* than historySize of them, and an empty batch leaves the value as it was.
C28_MostRecentMatches ==
  /\ MatchedEvents(item.value.matches)
       = LastN(Matching(item.received), item.historySize)
  /\ Len(item.value.matches) <= item.historySize
  /\ (item.calls > 0 /\ item.batch = <<>>) => item.value = item.prevValue

\* Matches of two batches are held together, the older first, after a third
\* batch without a match and an empty one did not disturb them.
C28_AcrossBatches ==
  /\ item.historySize = 2 /\ item.calls = 3
  /\ Len(item.value.matches) = 2
  /\ item.value.matches[1].messageEvent.id = 1
  /\ item.value.matches[2].messageEvent.id = 3
  /\ item.batch = <<>>

\* ------------------------------------------------- a tick that ends paused

\* A step in which a tick gets past its read and its wait for the listener.
TickReadCompletes == TickContinues

\* C29: a tick whose read completes after pausePlayback has stopped the
\* playback adds none of the messages it read to the queue and leaves
\* _nextReadStartTime as it was.
C29_PausedTickKeepsCursor ==
  [][(TickReadCompletes /\ ~isPlaying /\ ~hasError /\ ~closed)
       => /\ nextReadStartTime' = nextReadStartTime
          /\ messages' \in {messages, <<>>}]_vars

\* ------------------------------------------------- a seek during playback

\* Playback with a wall clock that moves, so that the time a seek is
\* marked with tells one seek from the one before.
NextSeeking ==
  \/ SetListener
  \/ InitializeDone({"ok"})
  \/ Few(StartPlayback)
  \/ Few(PausePlayback)
  \/ Few(SeekPlayback(LifecycleSeekInputs))
  \/ SetSubscriptions(SubscriptionChoices)
  \/ AdvanceClock
  \/ ReadLoopBegins
  \/ TickLoop
  \/ TickResumes
  \/ TickContinues
  \/ ReadingMutexRelease
  \/ TickReadDone({"ok"})
  \/ BackfillBegins
  \/ BackfillReadDone({"ok"})
  \/ BackfillReleases
  \/ BackfillResumes
  \/ ListenerDone

SpecSeeking == Init /\ [][NextSeeking]_vars

\* The provider read of a backfill: its window and its topics.
BackfillRead(b) == <<b.phase, b.start, b.end, b.topics, b.readStartTime>>

\* seekPlayback is called on an initialized player that is playing.
SeekWhilePlaying ==
  /\ initialized /\ isPlaying
  /\ SeekPlayback(LifecycleSeekInputs)

\* C30: a seekPlayback while playing begins no backfill and sets the
\* lastSeekTime marker to the time of the call, whether or not an earlier
\* backfill holds the backfill mutex.
C30_PlayingSeekMarksOnly ==
  [][SeekWhilePlaying
       => /\ lastSeekEmitTime' = now
          /\ bf'.phase # "idle" => BackfillRead(bf') = BackfillRead(bf)
          /\ bfOut'.phase # "idle"
               => BackfillRead(bfOut') = BackfillRead(bfOut)]_vars

\* ------------------------------------------------------- McapReader: chunks

\* The kinds of the records a stream is to yield, with the Chunk records
\* left out unless includeChunks is set.
WithChunks(types) ==
  IF mcap.reader.includeChunks
  THEN types
  ELSE SelectSeq(types, LAMBDA t : t # "Chunk")

\* The stream with the given bytes yields records of these kinds in this
\* order, and all of them when it has been fed and drained.
StreamYields(bytes, types) ==
  mcap.stream.bytes = bytes
    => /\ IsPrefix(Types(mcap.out), WithChunks(types))
       /\ FedAndDrained => Types(mcap.out) = WithChunks(types)

\* C31: a Chunk record is returned, before its contents, exactly when
\* includeChunks is set; the records in a chunk are returned in their order
\* between the records before and after the chunk; a chunk whose
\* compression has no handler, or with bytes after its last whole record,
\* makes nextRecord throw.
C31_ChunksUnfolded ==
  /\ StreamYields(ChunkStream,
                  <<"Chunk", "ChannelInfo", "Message", "IndexData",
                    "ChunkInfo", "Footer">>)
  /\ StreamYields(EmptyChunkStream,
                  <<"ChannelInfo", "Chunk", "Message", "Footer">>)
  /\ StreamYields(CompressedChunkStream, <<"ChannelInfo", "Chunk">>)
  /\ StreamYields(LeftoverChunkStream, <<"Chunk", "Message">>)
  /\ \A i \in 1..Len(mcap.out) :
       /\ mcap.out[i].type = "ChannelInfo" => mcap.out[i].data = <<7>>
       /\ mcap.out[i].type = "Message" => mcap.out[i].data = <<8>>
  /\ (mcap.stream.kind \in {"compressed", "leftover"} /\ FedAndDrained)
       => mcap.threw
  /\ (mcap.stream.kind = "valid") => ~mcap.threw

\* A reader without includeChunks has thrown at a compressed chunk behind a
\* record it has returned.
C31_CompressedChunkThrown ==
  /\ mcap.stream.kind = "compressed" /\ ~mcap.reader.includeChunks
  /\ mcap.threw /\ Types(mcap.out) = <<"ChannelInfo">>

\* ------------------------------------------- McapReader: failed or complete

\* The reader has failed or has completed its read.
McapEnded == mcap.threw \/ mcap.reader.doneReading

\* C32: once nextRecord has thrown, done() is true; a reader that has
\* failed or completed takes no more bytes into its buffer and returns no
\* more records.
C32_EndedIsTerminal ==
  [][/\ mcap'.threw => mcap'.reader.doneReading
     /\ McapEnded => /\ Len(mcap'.reader.storage) <= Len(mcap.reader.storage)
                     /\ mcap'.out = mcap.out]_vars

\* ------------------------------------------------ calls before initialization

\* seekPlayback or requestBackfill is called while the player initializes.
EarlyCall ==
  /\ initializing
  /\ SeekPlayback(LifecycleSeekInputs) \/ RequestBackfill

\* The provider's initialize resolves with success for the first time.
InitializeSucceeds ==
  /\ initializing /\ ~hasError
  /\ InitializeDone({"ok"})

\* What the listener is to be called with is as it was.
NoEmissionStep ==
  /\ emitCalling' = emitCalling
  /\ emitPending' = emitPending
  /\ emitted' = emitted

\* A call during initialization changes no cursor, begins no read and emits
\* nothing.
EarlyCallIgnored ==
  EarlyCall
    => /\ nextReadStartTime' = nextReadStartTime
       /\ currentTime' = currentTime
       /\ bf' = bf /\ bfOut' = bfOut
       /\ tick' = tick /\ messages' = messages
       /\ NoEmissionStep

\* When initialize succeeds the player is initialized and seeks to the
\* initial time; if paused it takes the backfill mutex for a read of the
\* 299 ms that end there.
SeeksInitially ==
  InitializeSucceeds
    => LET initialTime == getSeekTimeFromSpec(start', end')
       IN /\ ~initializing' /\ initialized'
          /\ nextReadStartTime' = initialTime
          /\ isPlaying => bf'.phase = "idle" /\ ~backfillMutex'
          /\ ~isPlaying
               => /\ bf'.phase = "locked" /\ backfillMutex'
                  /\ bf'.initial
                  /\ bf'.end = initialTime
                  /\ bf'.start = clampTime(
                                   initialTime - SEEK_BACK_NANOSECONDS,
                                   start', end')

\* _seekPlaybackInternal resumes with the read of the backfill that the
\* handler of initialize has begun.
InitialBackfillResumes ==
  BackfillResumes /\ bfOut.initial /\ ~bfOut.rejected

\* The step emits the backfill it resumes with: the provider's messages of
\* the backfill's window are given to the listener in a state whose
\* currentTime is the window's end, at once or when the call in flight is
\* done, and the cursor moves past the window.
BackfillEmitted ==
  /\ bfOut.messages
       = ProviderGetMessages(bfOut.start, bfOut.end, bfOut.topics)
  /\ nextReadStartTime' = bfOut.end + 1
  /\ IF emitCalling
     THEN emitPending' /\ messages' = bfOut.messages
     ELSE /\ ListenerCalled'
          /\ emitted'.state.active
          /\ emitted'.state.currentTime = bfOut.end
          /\ emitted'.state.messages = bfOut.messages

NextReadLoop ==
  \/ SetListener
  \/ InitializeDone({"ok"})
  \/ StartPlayback
  \/ PausePlayback
  \/ SetSubscriptions(SubscriptionChoices)
  \/ ReadLoopBegins
  \/ TickLoop
  \/ TickResumes
  \/ TickContinues
  \/ ReadingMutexRelease
  \/ TickReadDone({"ok"})
  \/ BackfillBegins
  \/ BackfillReadDone({"ok"})
  \/ BackfillReleases
  \/ BackfillResumes
  \/ ListenerDone

SpecReadLoop == Init /\ [][NextReadLoop]_vars

\* The tick loop holds the reading mutex and has not ended.
TickLoopRunning ==
  /\ readingMutex
  /\ tick.phase \in {"locked", "read", "resolved", "rejected", "emitWait",
                     "resumed", "delay"}

\* C34: while the player is playing, initialized and without an error, its
\* tick loop is running; a tick is under way only under the reading mutex.
C34_PlayingHasTickLoop ==
  /\ (isPlaying /\ ~initializing /\ ~hasError) => TickLoopRunning
  /\ tick.phase # "idle" => readingMutex

\* ------------------------------------------------- setListener called again

\* A caller that may set a listener more than once.
NextListeners ==
  \/ SetListenerAgain
  \/ InitializeDone(InitOutcomes)
  \/ Few(StartPlayback)
  \/ Few(PausePlayback)
  \/ SetSubscriptions(SubscriptionChoices)
  \/ ReadLoopBegins
  \/ TickLoop
  \/ TickResumes
  \/ TickContinues
  \/ ReadingMutexRelease
  \/ TickReadDone({"ok"})
  \/ BackfillBegins
  \/ BackfillReadDone({"ok"})
  \/ BackfillReleases
  \/ BackfillResumes
  \/ ListenerDone

SpecListeners == Init /\ [][NextListeners]_vars

\* C35: provider.initialize has been called at most once.
C35_InitializeOnce == initCalls <= 1

\* ------------------------------------------------------- reads after close

\* A step in which a provider.getMessages call is started, by a tick or by
\* a backfill.
ReadStarts ==
  \/ tick'.phase = "read" /\ tick.phase # "read"
  \/ bf'.phase = "read" /\ bf.phase # "read"

\* C36: once close() has been called, no provider.getMessages call is
\* started.
C36_NoReadAfterClose == [][closed => ~ReadStarts]_vars

\* ------------------------------------------------- backfills on request

\* A paused player whose caller never seeks: it asks for backfills,
\* subscribes and sets the speed.
NextBackfills ==
  \/ SetListener
  \/ InitializeDone({"ok"})
  \/ RequestBackfill
  \/ SetSubscriptions(SubscriptionChoices)
  \/ SetPlaybackSpeed
  \/ BackfillBegins
  \/ BackfillReadDone({"ok"})
  \/ BackfillReleases
  \/ BackfillResumes
  \/ ListenerDone

SpecBackfills == Init /\ [][NextBackfills]_vars

\* No backfill is under way and none of its emissions is waiting.
BackfillSettled ==
  /\ bf.phase = "idle" /\ bfOut.phase = "idle"
  /\ ~backfillMutex /\ ~emitPending

\* C37: in a paused player that is never told to seek, the position stays
\* where initialization put it: every state given to the listener when the
\* backfills asked for so far have settled has the initial time as its
\* currentTime.
C37_BackfillKeepsPosition ==
  (ListenerCalled /\ Shown.active /\ BackfillSettled)
    => Shown.currentTime = getSeekTimeFromSpec(start, end)

\* ------------------------------------------ RosbridgePlayer: the /clock topic

\* The topics a caller of setSubscriptions ever asks for.
RosCallerTopics == UNION RosSubscriptionChoices

\* C38: every message given to the listener is on a topic the caller has
\* asked for, no /clock message among them, and the subscriptions kept for
\* the caller are the ones it gave.
C38_OnlyRequestedTopics ==
  /\ RosListenerCalled
       => \A i \in 1..Len(RosShown.messages) :
            RosShown.messages[i].topic \in RosCallerTopics
  /\ ros.requested \subseteq RosCallerTopics

\* ------------------------------------- RosbridgePlayer: topics without a type

\* A RosbridgePlayer polling a server that may have a topic without a type.
NextRosPolls ==
  \/ RosSetListener
  \/ RosSetSubscriptions
  \/ RosConnected
  \/ RosTopicsAnswered(RosOddTopicResults)
  \/ RosGraphSettled({TRUE})
  \/ RosPollTimer
  \/ RosEmitTimer
  \/ RosListenerDone

SpecRosPolls == Init /\ [][NextRosPolls]_vars

\* C39: when getTopicsAndRawTypes has resolved, the problem
\* requestTopics:missing-types is there exactly if the result had a topic
\* without a type or a definition, and it stays until the next request.
C39_MissingTypesShown ==
  [][/\ \A result \in RosOddTopicResults :
          RosTopicsAnswer(result)
            => ("requestTopics:missing-types" \in ros'.problems
                  <=> result.missing)
     /\ (ros.request # "topics" /\ ros'.request # "topics")
          => ("requestTopics:missing-types" \in ros'.problems
                <=> "requestTopics:missing-types" \in ros.problems)]_vars

\* ------------------------------------------ useMessageDataItem: restore

\* The reducer under batches and restores in any order.
NextItemRestore ==
  \/ AddMessages
  \/ Restore

SpecItemRestore == Init /\ [][NextItemRestore]_vars

\* How many of the matches are messages of the given batch.
MatchesOfBatch(matches, messageEvents) ==
  Cardinality({i \in 1..Len(matches) :
                 \E j \in 1..Len(messageEvents) :
                   matches[i].messageEvent.id = messageEvents[j].id})

\* C40: after addMessages and restore calls in any order the matches are
\* never more than historySize, for historySize 0 too, and what restore
\* returns holds at least min(historySize, number of matching messages of
\* the last batch) matches of that batch.
C40_RestoreWithinHistory ==
  [][/\ Len(item'.value.matches) <= item.historySize
     /\ Restore
          => LET n == Len(Matching(item'.value.messageEvents))
                 least == IF item.historySize < n THEN item.historySize ELSE n
             IN MatchesOfBatch(item'.value.matches,
                               item'.value.messageEvents) >= least]_vars
====
